---- MODULE Spec2Model ----
(***************************************************************************)
(* Verification model of openclaw-disclawd.                                *)
(*                                                                         *)
(*   Spec     the RateLimiter (token bucket per scope key): its            *)
(*            synchronous calls under the passage of time                  *)
(*   SpecWait concurrent callers of RateLimiter.waitForSlot                *)
(*   SpecMap  the event mapper (mapEvent and its 13 handlers) as the two   *)
(*            gateways call it for every publication / stdout line         *)
(*   SpecChunk  chunkText applied to a text and a limit                    *)
(*   SpecGw   the CentrifugoGateway's start, stop, addChannel and          *)
(*            removeChannel, interleaved at their awaits                   *)
(*   SpecStart  CentrifugoGateway.start under every configuration, with    *)
(*            stop                                                         *)
(*   SpecRefresh  the gateway with the client's token refreshes            *)
(*   SpecPub  the running gateway's handlers of publications and status    *)
(*            events, with the host's callbacks and auto-subscribe         *)
(*   SpecBin  the BinaryGateway: start, stop, the dscl child and the       *)
(*            lines of its two streams                                     *)
(*   SpecRun  addChannel and removeChannel called on a gateway that        *)
(*            start() has brought up                                       *)
(*   SpecSend  the OutboundService: concurrent calls of sendText with      *)
(*            their typing indicators, and stopAll                         *)
(*   SpecReq  concurrent calls of ApiClient.request: the waits for a slot, *)
(*            the fetch, the 429 backoff                                   *)
(*                                                                         *)
(* Token counts are JavaScript numbers in the source.  Every count the     *)
(* limiter can hold at an integer millisecond is a multiple of 1/60000, so *)
(* the model stores tokens in units of 1/60000 token (ONE_TOKEN units make *)
(* one token) and the arithmetic is exact; IEEE-754 rounding of            *)
(* elapsed * refillRate is not modelled.                                   *)
(***************************************************************************)
EXTENDS Integers, Sequences, FiniteSets, TLC

VARIABLES
    now,        \* Date.now(), in ms
    ticks,      \* number of time advances so far (bounds the run)
    buckets,    \* RateLimiter.buckets: Map<string, Bucket>
    ref,        \* a second limiter that receives every call except canConsume
    last,       \* the latest limiter call: its name, key and return value
    burst,      \* per key: consume calls made back to back on a fresh bucket
    pc,         \* per caller of waitForSlot: "idle", "sleeping", "returned"
    wkey,       \* per caller: the key it waits on
    wakeAt,     \* per caller: when its setTimeout is due
    got,        \* per caller: what its consume() at the end returned
    limits,     \* the callers' table of limits: the maxPerMinute passed for each key
    mapperCtx,  \* the gateway's MapperContext
    gateway,    \* which gateway handled the latest wire input
    wireIn,     \* the latest wire input (envelope and originating channel)
    mapped,     \* what mapEvent returned for it
    emitted,    \* what was handed to the host's onEvent for it
    text,       \* chunkText's argument text, as a sequence of characters
    maxLen,     \* chunkText's argument maxLen
    chunks,     \* what chunkText returned
    phase,      \* "input" before the call of chunkText, "done" after it
    client,             \* CentrifugoGateway.client: "null" or "open"
    subscriptions,      \* the keys of CentrifugoGateway.subscriptions
    requestedChannels,  \* CentrifugoGateway.requestedChannels, the interest set
    tokenResponse,      \* CentrifugoGateway.tokenResponse
    myUserId,           \* CentrifugoGateway.myUserId
    startPc,            \* where start() is: "idle", the await it is suspended at, "done", "failed"
    channelList,        \* connect()'s channelList
    addPc,              \* per call of addChannel: "idle", "token" (awaiting it), "done", "failed"
    addArg,             \* per call of addChannel: its argument
    addList,            \* per call of addChannel: the list it requested a token for
    authLog,            \* the authorization requests made, in order: the list each was for
    stopped,            \* stop() has completed and start() was not called since
    stopDuringStart,    \* stop() was called while start() was suspended at an await
    sinceStop,          \* what the host's callbacks received since the latest stop()
    gwOp,               \* the latest gateway step
    config,             \* CentrifugoGateway.config: the fields start() reads
    srvIdx,             \* start()'s position in config.servers
    refPc,              \* the client's getToken callback: "idle", "token" (awaiting it),
                        \* "resolved", "rejected"
    refList,            \* the list the getToken callback requested a token for
    refreshes,          \* how often the client has called getToken
    outcome,            \* how the latest handler of a transport event ended: "returned",
                        \* "caught" (an exception was caught and logged), "threw"
    hostThrew,          \* the host's callback threw in the latest handler
    thrown,             \* a callback of the host has thrown at some time
    autoCalls,          \* the calls of addChannel made by auto-subscribe
    proc,               \* BinaryGateway.proc: "null" or "child"
    child,              \* the dscl child: "none", "unspawned" (spawn failed, 'error' not
                        \* yet emitted), "running", "failed", "exited"
    stdoutRl,           \* BinaryGateway.stdoutRl: "null" or "open"
    stderrRl,           \* BinaryGateway.stderrRl: "null" or "open"
    binUserId,          \* BinaryGateway.myUserId
    binStartPc,         \* where BinaryGateway.start() is: "idle", "getMe", "done", "failed"
    binStopPc,          \* where BinaryGateway.stop() is: "idle", "close" (awaiting it), "done"
    line,               \* the latest line of the child's stdout
    errLine,            \* the latest line of the child's stderr
    hostLog,            \* what the host's callbacks were called with, in order
    discarded,          \* a stdout line was dropped at some time
    binOp,              \* the latest step of the BinaryGateway
    sendTypingIndicators,   \* OutboundService.sendTypingIndicators
    typingTimers,       \* OutboundService.typingTimers: per target the timer stored, or none
    activeTimers,       \* the keep-alive timers armed and not cleared
    sendPc,             \* per call of sendText: "idle", "typing" (awaiting startTyping's
                        \* signal), "armed" (startTyping returned), "chunk" (awaiting the
                        \* REST call), "delay" (awaiting sleep), "returned", "threw"
    sendTarget,         \* per call of sendText: its target
    sendChunks,         \* per call of sendText: chunks.length
    calls,              \* per call of sendText: the REST calls it made, in order
    messages,           \* per call of sendText: its messages list
    typingCalls,        \* the typing signals sent so far
    sendOp,             \* the latest step of the OutboundService
    reqPc,              \* per call of ApiClient.request: "idle", "global" / "scoped" (in
                        \* that waitForSlot), "fetch" (awaiting the response), "backoff"
                        \* (awaiting the timer after a 429), "returned", "threw"
    reqKey,             \* per call of request: options.rateLimitKey, "" if none
    slotG,              \* per call of request: how the latest wait on 'global' ended
    fetchLog,           \* per call of request: the fetches made, each with how the waits
                        \* before it ended
    backoffAt,          \* per call of request: when its backoff timer is due
    reqResult,          \* per call of request: what it returned or threw
    reqRes,             \* per call of request: status and body of the latest response
    reqOp               \* the latest step of a call of request

limiterVars == <<now, ticks, buckets, ref, last, burst, pc, wkey, wakeAt, got, limits>>
ingestVars == <<mapperCtx, gateway, wireIn, mapped, emitted>>
chunkVars == <<text, maxLen, chunks, phase>>
gwVars == <<client, subscriptions, requestedChannels, tokenResponse, myUserId, startPc,
            channelList, addPc, addArg, addList, authLog, stopped, stopDuringStart,
            sinceStop, gwOp, config, srvIdx>>
refreshVars == <<refPc, refList, refreshes>>
hostVars == <<outcome, hostThrew, thrown, autoCalls>>
binVars == <<proc, child, stdoutRl, stderrRl, binUserId, binStartPc, binStopPc, line,
             errLine, hostLog, discarded, binOp>>
sendVars == <<sendTypingIndicators, typingTimers, activeTimers, sendPc, sendTarget,
              sendChunks, calls, messages, typingCalls, sendOp>>
reqVars == <<reqPc, reqKey, slotG, fetchLog, backoffAt, reqResult, reqRes, reqOp>>
vars == <<limiterVars, ingestVars, chunkVars, gwVars, refreshVars, hostVars, binVars,
          sendVars, reqVars>>

\* what a step of one component leaves alone
notLimiterVars == <<ingestVars, chunkVars, gwVars, refreshVars, hostVars, binVars, sendVars,
                    reqVars>>
notIngestVars == <<limiterVars, chunkVars, gwVars, refreshVars, hostVars, binVars, sendVars,
                   reqVars>>
notChunkVars == <<limiterVars, ingestVars, gwVars, refreshVars, hostVars, binVars, sendVars,
                  reqVars>>
notGwVars == <<limiterVars, ingestVars, chunkVars, refreshVars, hostVars, binVars, sendVars,
               reqVars>>
notGatewayVars == <<limiterVars, ingestVars, chunkVars, hostVars, binVars, sendVars,
                    reqVars>>
notHandlerVars == <<limiterVars, chunkVars, refreshVars, binVars, sendVars, reqVars>>
notHostVars == <<limiterVars, ingestVars, chunkVars, refreshVars, binVars, sendVars,
                 reqVars>>
notSendVars == <<limiterVars, ingestVars, chunkVars, gwVars, refreshVars, hostVars,
                 binVars, reqVars>>
\* a call of request takes steps of the limiter too
notReqVars == <<ingestVars, chunkVars, gwVars, refreshVars, hostVars, binVars, sendVars>>
notBinVars == <<limiterVars, ingestVars, chunkVars, gwVars, refreshVars, sendVars, reqVars>>

Min(a, b) == IF a <= b THEN a ELSE b

\* Math.ceil(a / b) for b > 0
CeilDiv(a, b) == IF a % b = 0 THEN a \div b ELSE (a \div b) + 1

----------------------------------------------------------------------------
(* Bounds *)

MaxCapacity == 2
MaxTicks == 2
MaxPieces == 5
MaxLimit == 4
MaxRefresh == 2
MaxHostLog == 3
MaxChunks == 2
MaxTyping == 3
MaxFetches == 3

----------------------------------------------------------------------------
(* RateLimiter *)

\* 60_000: a bucket refills completely in one minute
REFILL_MS == 60000

\* one token, in the model's unit of 1/60000 token
ONE_TOKEN == REFILL_MS

Scopes == {"global", "msg:c1"}
Callers == {"r1", "r2"}
Capacities == 1..MaxCapacity
\* values of X-RateLimit-Remaining: negative, none left, more than any capacity
Remainings == {-1, 0, MaxCapacity + 1}
TickSteps == {REFILL_MS \div 2, REFILL_MS}

NoBuckets == [k \in {} |-> 0]

\* Map.set
PutAll(bs, key, b) == [k \in DOMAIN bs \cup {key} |-> b]
Put(bs, key, b) == [k \in DOMAIN bs \cup {key} |-> IF k = key THEN b ELSE bs[k]]

\* refillRate is maxPerMinute / 60_000 tokens per ms: maxPerMinute units per ms
getBucket(bs, key, maxPerMinute, t) ==
    IF key \in DOMAIN bs
    THEN bs
    ELSE Put(bs, key, [tokens |-> maxPerMinute * ONE_TOKEN,
                       maxTokens |-> maxPerMinute,
                       refillRate |-> maxPerMinute,
                       lastRefill |-> t])

refillKeepClock(bucket, t) ==
    [bucket EXCEPT !.tokens = Min(bucket.maxTokens * ONE_TOKEN,
                                  bucket.tokens + (t - bucket.lastRefill) * bucket.refillRate)]
refill(bucket, t) ==
    [bucket EXCEPT !.tokens = Min(bucket.maxTokens * ONE_TOKEN,
                                  bucket.tokens + (t - bucket.lastRefill) * bucket.refillRate),
                   !.lastRefill = t]

\* Each call returns the map afterwards and the value returned to the caller.
canConsume(bs, key, maxPerMinute, t) ==
    LET g == getBucket(bs, key, maxPerMinute, t)
        b == refill(g[key], t)
    IN [bs |-> Put(g, key, b), ret |-> b.tokens >= ONE_TOKEN]

consumeLax(bs, key, maxPerMinute, t) ==
    LET g == getBucket(bs, key, maxPerMinute, t)
        b == refill(g[key], t)
    IN IF b.tokens >= 0
       THEN [bs |-> Put(g, key, [b EXCEPT !.tokens = b.tokens - ONE_TOKEN]), ret |-> TRUE]
       ELSE [bs |-> Put(g, key, b), ret |-> FALSE]
consumeShared(bs, key, maxPerMinute, t) ==
    LET g == getBucket(bs, key, maxPerMinute, t)
        b == refill(g[key], t)
    IN IF b.tokens >= ONE_TOKEN
       THEN [bs |-> PutAll(g, key, [b EXCEPT !.tokens = b.tokens - ONE_TOKEN]), ret |-> TRUE]
       ELSE [bs |-> Put(g, key, b), ret |-> FALSE]
consume(bs, key, maxPerMinute, t) ==
    LET g == getBucket(bs, key, maxPerMinute, t)
        b == refill(g[key], t)
    IN IF b.tokens >= ONE_TOKEN
       THEN [bs |-> Put(g, key, [b EXCEPT !.tokens = b.tokens - ONE_TOKEN]), ret |-> TRUE]
       ELSE [bs |-> Put(g, key, b), ret |-> FALSE]

msUntilAvailable(bs, key, maxPerMinute, t) ==
    LET g == getBucket(bs, key, maxPerMinute, t)
        b == refill(g[key], t)
    IN [bs |-> Put(g, key, b),
        ret |-> IF b.tokens >= ONE_TOKEN THEN 0
                ELSE CeilDiv(ONE_TOKEN - b.tokens, b.refillRate)]

updateFromHeadersRaw(bs, key, maxPerMinute, remaining, t) ==
    LET g == getBucket(bs, key, maxPerMinute, t)
        b == g[key]
    IN [bs |-> Put(g, key, [b EXCEPT !.tokens = remaining * ONE_TOKEN,
                                     !.lastRefill = t]),
        ret |-> TRUE]
updateFromHeaders(bs, key, maxPerMinute, remaining, t) ==
    LET g == getBucket(bs, key, maxPerMinute, t)
        b == g[key]
    IN [bs |-> Put(g, key, [b EXCEPT !.tokens = Min(remaining, b.maxTokens) * ONE_TOKEN,
                                     !.lastRefill = t]),
        ret |-> TRUE]

----------------------------------------------------------------------------
(* The limiter's calls as steps.  Every call but canConsume is made on ref too. *)

Call(op, key, arg, r, rr) == [op |-> op, key |-> key, arg |-> arg, ret |-> r, refRet |-> rr]

Spoil(key) == [burst EXCEPT ![key] = -1]

CanConsume(key) ==
    LET r == canConsume(buckets, key, limits[key], now)
        rr == canConsume(ref, key, limits[key], now)
    IN /\ buckets' = r.bs
       /\ last' = Call("canConsume", key, 0, r.ret, rr.ret)
       /\ burst' = Spoil(key)
       /\ UNCHANGED <<now, ticks, ref, pc, wkey, wakeAt, got, limits>>
       /\ UNCHANGED notLimiterVars

Consume(key) ==
    LET r == consume(buckets, key, limits[key], now)
        rr == consume(ref, key, limits[key], now)
    IN /\ buckets' = r.bs
       /\ ref' = rr.bs
       /\ last' = Call("consume", key, 0, r.ret, rr.ret)
       /\ burst' = [burst EXCEPT ![key] =
                        IF key \notin DOMAIN buckets THEN 1
                        ELSE IF burst[key] >= 1 THEN Min(burst[key] + 1, limits[key] + 1)
                        ELSE -1]
       /\ UNCHANGED <<now, ticks, pc, wkey, wakeAt, got, limits>>
       /\ UNCHANGED notLimiterVars

MsUntilAvailable(key) ==
    LET r == msUntilAvailable(buckets, key, limits[key], now)
        rr == msUntilAvailable(ref, key, limits[key], now)
    IN /\ buckets' = r.bs
       /\ ref' = rr.bs
       /\ last' = Call("msUntilAvailable", key, 0, r.ret, rr.ret)
       /\ burst' = Spoil(key)
       /\ UNCHANGED <<now, ticks, pc, wkey, wakeAt, got, limits>>
       /\ UNCHANGED notLimiterVars

UpdateFromHeaders(key, remaining) ==
    LET r == updateFromHeaders(buckets, key, limits[key], remaining, now)
        rr == updateFromHeaders(ref, key, limits[key], remaining, now)
    IN /\ buckets' = r.bs
       /\ ref' = rr.bs
       /\ last' = Call("updateFromHeaders", key, remaining, r.ret, rr.ret)
       /\ burst' = Spoil(key)
       /\ UNCHANGED <<now, ticks, pc, wkey, wakeAt, got, limits>>
       /\ UNCHANGED notLimiterVars

\* waitForSlot up to its await: with nothing to wait for it consumes at once and
\* returns; otherwise it arms a timer and the caller is suspended.
waitForSlot(c, key) ==
    LET w == msUntilAvailable(buckets, key, limits[key], now)
        rw == msUntilAvailable(ref, key, limits[key], now)
        r == consume(w.bs, key, limits[key], now)
        rr == consume(rw.bs, key, limits[key], now)
    IN /\ pc[c] # "sleeping"
       /\ wkey' = [wkey EXCEPT ![c] = key]
       /\ burst' = Spoil(key)
       /\ IF w.ret > 0
          THEN /\ buckets' = w.bs
               /\ ref' = rw.bs
               /\ pc' = [pc EXCEPT ![c] = "sleeping"]
               /\ wakeAt' = [wakeAt EXCEPT ![c] = now + w.ret]
               /\ got' = [got EXCEPT ![c] = FALSE]
               /\ last' = Call("waitForSlot.wait", key, 0, w.ret, rw.ret)
          ELSE /\ buckets' = r.bs
               /\ ref' = rr.bs
               /\ pc' = [pc EXCEPT ![c] = "returned"]
               /\ wakeAt' = [wakeAt EXCEPT ![c] = 0]
               /\ got' = [got EXCEPT ![c] = r.ret]
               /\ last' = Call("waitForSlot", key, 0, r.ret, rr.ret)
       /\ UNCHANGED <<now, ticks, limits>>

WaitForSlotCall(c, key) ==
    /\ waitForSlot(c, key)
    /\ UNCHANGED notLimiterVars

\* the timer fires (at or after its due time): consume, whose result is dropped,
\* and return
WaitForSlotWake(c) ==
    LET key == wkey[c]
        r == consume(buckets, key, limits[key], now)
        rr == consume(ref, key, limits[key], now)
    IN /\ pc[c] = "sleeping"
       /\ now >= wakeAt[c]
       /\ buckets' = r.bs
       /\ ref' = rr.bs
       /\ pc' = [pc EXCEPT ![c] = "returned"]
       /\ got' = [got EXCEPT ![c] = r.ret]
       /\ last' = Call("waitForSlot", key, 0, r.ret, rr.ret)
       /\ wakeAt' = [wakeAt EXCEPT ![c] = 0]
       /\ burst' = Spoil(key)
       /\ UNCHANGED <<now, ticks, wkey, limits>>
       /\ UNCHANGED notLimiterVars

Advance(t) ==
    /\ ticks < MaxTicks
    /\ now' = t
    /\ ticks' = ticks + 1
    /\ last' = Call("tick", "", 0, TRUE, TRUE)
    /\ burst' = [k \in Scopes |-> -1]
    /\ UNCHANGED <<buckets, ref, pc, wkey, wakeAt, got, limits>>
    /\ UNCHANGED notLimiterVars

\* time passes
Tick(d) == Advance(now + d)

\* time passes up to the moment a pending timer is due
TimerDue(c) ==
    /\ pc[c] = "sleeping"
    /\ wakeAt[c] > now
    /\ Advance(wakeAt[c])

----------------------------------------------------------------------------
(* Event mapper *)

Undef == "undefined"
Null == [null |-> TRUE]

\* a call that did not return: it threw a TypeError
Raised == [raised |-> "TypeError"]

EventNames ==
    {"MessageSent", "MessageUpdated", "MessageDeleted", "TypingStarted",
     "ReactionAdded", "ReactionRemoved", "ThreadCreated", "ThreadUpdated",
     "MemberJoined", "MemberLeft", "DmCreated", "DmMessageReceived",
     "MentionReceived"}

UserIds == {"1", "2"}
ChannelIds == {"7", ""}

\* A payload, with the fields the handlers read; a field its kind does not carry
\* is undefined.
NoPayload ==
    [id |-> Undef, channel_id |-> Undef, thread_id |-> Undef, server_id |-> Undef,
     author_id |-> Undef, user_id |-> Undef, message_id |-> Undef,
     member_id |-> Undef, sender_id |-> Undef,
     message_msg_id |-> Undef, message_author_id |-> Undef]

Normalized(id, channelId, serverId, ctx, type, authorId, threadId, isDm) ==
    [id |-> id, channelId |-> channelId, serverId |-> serverId,
     accountId |-> ctx.accountId, platform |-> "disclawd", type |-> type,
     authorId |-> authorId, threadId |-> threadId, isDm |-> isDm]

Mapped(normalized, autoSubscribe) ==
    [normalized |-> normalized, autoSubscribe |-> autoSubscribe]

MessageSent(payload, ctx) ==
    IF payload.author_id = ctx.myUserId THEN Null
    ELSE Mapped(Normalized(payload.id, payload.channel_id, Undef, ctx, "message",
                           payload.author_id, payload.thread_id, Undef), Undef)

MessageUpdated(payload, ctx) ==
    IF payload.author_id = ctx.myUserId THEN Null
    ELSE Mapped(Normalized(payload.id, payload.channel_id, Undef, ctx, "message.edit",
                           payload.author_id, payload.thread_id, Undef), Undef)

MessageDeleted(payload, ctx) ==
    Mapped(Normalized(payload.id, payload.channel_id, Undef, ctx, "message.delete",
                      Undef, payload.thread_id, Undef), Undef)

TypingStartedUnfiltered(payload, ctx) ==
    Mapped(Normalized(<<"typing", payload.user_id, payload.channel_id>>,
                      payload.channel_id, Undef, ctx, "typing",
                      payload.user_id, Undef, Undef), Undef)
TypingStarted(payload, ctx) ==
    IF payload.user_id = ctx.myUserId THEN Null
    ELSE Mapped(Normalized(<<"typing", payload.user_id, payload.channel_id>>,
                           payload.channel_id, Undef, ctx, "typing",
                           payload.user_id, Undef, Undef), Undef)

ReactionAdded(payload, ctx) ==
    IF payload.user_id = ctx.myUserId THEN Null
    ELSE Mapped(Normalized(<<"reaction", payload.message_id, payload.user_id>>,
                           "", Undef, ctx, "reaction.add", Undef, Undef, Undef), Undef)

ReactionRemoved(payload, ctx) ==
    IF payload.user_id = ctx.myUserId THEN Null
    ELSE Mapped(Normalized(<<"reaction", payload.message_id, payload.user_id>>,
                           "", Undef, ctx, "reaction.remove", Undef, Undef, Undef), Undef)

ThreadCreatedAsChannel(payload, ctx) ==
    Mapped(Normalized(payload.id, payload.channel_id, Undef, ctx, "thread.create",
                      Undef, payload.id, Undef),
           "channel." \o payload.id)
ThreadCreated(payload, ctx) ==
    Mapped(Normalized(payload.id, payload.channel_id, Undef, ctx, "thread.create",
                      Undef, payload.id, Undef),
           "thread." \o payload.id)

ThreadUpdated(payload, ctx) ==
    Mapped(Normalized(payload.id, "", Undef, ctx, "thread.update",
                      Undef, payload.id, Undef), Undef)

MemberJoined(payload, ctx) ==
    Mapped(Normalized(<<"join", payload.member_id, payload.server_id>>,
                      "", payload.server_id, ctx, "presence.join",
                      payload.member_id, Undef, Undef), Undef)

MemberLeftFiltered(payload, ctx) ==
    IF payload.user_id = ctx.myUserId THEN Null
    ELSE Mapped(Normalized(<<"leave", payload.user_id, payload.server_id>>,
                           "", payload.server_id, ctx, "presence.leave",
                           payload.user_id, Undef, Undef), Undef)
MemberLeft(payload, ctx) ==
    Mapped(Normalized(<<"leave", payload.user_id, payload.server_id>>,
                      "", payload.server_id, ctx, "presence.leave",
                      payload.user_id, Undef, Undef), Undef)

DmCreated(payload, ctx) ==
    Mapped(Normalized(<<"dm", payload.channel_id>>,
                      payload.channel_id, payload.server_id, ctx, "dm.create",
                      payload.sender_id, Undef, TRUE),
           "channel." \o payload.channel_id)

DmMessageReceived(payload, ctx) ==
    IF payload.message_author_id = ctx.myUserId THEN Null
    ELSE Mapped(Normalized(payload.message_msg_id, payload.channel_id, payload.server_id,
                           ctx, "message", payload.message_author_id, Undef, TRUE), Undef)

MentionReceived(payload, ctx) ==
    IF payload.author_id = ctx.myUserId THEN Null
    ELSE Mapped(Normalized(<<"mention", payload.message_id>>,
                           payload.channel_id, payload.server_id, ctx, "mention",
                           payload.author_id, Undef, Undef), Undef)

\* handlers[envelope.event](payload, ctx, centrifugoChannel); no handler: null.
\* handlers is an object literal, so the lookup also finds what it inherits from
\* Object.prototype: handlers["constructor"] is Object, and Object(payload) is the
\* payload itself; handlers["__proto__"] is Object.prototype, which is truthy and
\* cannot be called.
handlers(event, payload, ctx) ==
    CASE event = "MessageSent" -> MessageSent(payload, ctx)
      [] event = "MessageUpdated" -> MessageUpdated(payload, ctx)
      [] event = "MessageDeleted" -> MessageDeleted(payload, ctx)
      [] event = "TypingStarted" -> TypingStarted(payload, ctx)
      [] event = "ReactionAdded" -> ReactionAdded(payload, ctx)
      [] event = "ReactionRemoved" -> ReactionRemoved(payload, ctx)
      [] event = "ThreadCreated" -> ThreadCreated(payload, ctx)
      [] event = "ThreadUpdated" -> ThreadUpdated(payload, ctx)
      [] event = "MemberJoined" -> MemberJoined(payload, ctx)
      [] event = "MemberLeft" -> MemberLeft(payload, ctx)
      [] event = "DmCreated" -> DmCreated(payload, ctx)
      [] event = "DmMessageReceived" -> DmMessageReceived(payload, ctx)
      [] event = "MentionReceived" -> MentionReceived(payload, ctx)
      [] event = "constructor" -> payload
      [] event = "__proto__" -> Raised
      [] OTHER -> Null

\* A channel name is <prefix><scope>.<id>.  The leading digits of an id, as \d+
\* captures them ("" when the id does not start with a digit).
LeadingDigits(id) ==
    CASE id = "7" -> "7"
      [] id = "42" -> "42"
      [] id = "9x" -> "9"
      [] id = "9" -> "9"
      [] OTHER -> ""

ChannelName(prefix, scope, id) == [prefix |-> prefix, scope |-> scope, id |-> id]

\* the prefixes that end in "private-": the pattern is not anchored at the start
EndsWithPrivate(prefix) == prefix \in {"private-", "my-private-"}

\* centrifugoChannel.match(/private-(?:channel|thread)\.(\d+)/): the capture, or
\* Undef when there is no match
MatchPrivateChannel(channel) ==
    IF /\ EndsWithPrivate(channel.prefix)
       /\ channel.scope \in {"channel", "thread"}
       /\ LeadingDigits(channel.id) # ""
    THEN LeadingDigits(channel.id)
    ELSE Undef

\* !x for a string or undefined x
Falsy(x) == x = "" \/ x = Undef

\* reading result.normalized.channelId throws when the handler found returned
\* something that has no `normalized`
mapEvent(envelope, ctx, centrifugoChannel) ==
    LET result == handlers(envelope.event, envelope.payload, ctx)
        match == MatchPrivateChannel(centrifugoChannel)
    IN IF result = Raised \/ result = Null THEN result
       ELSE IF "normalized" \notin DOMAIN result THEN Raised
       ELSE IF Falsy(result.normalized.channelId) /\ match # Undef
       THEN [result EXCEPT !.normalized.channelId = match]
       ELSE result

\* Wire inputs
Payloads(event) ==
    CASE event \in {"MessageSent", "MessageUpdated"} ->
            {[NoPayload EXCEPT !.id = "m1", !.channel_id = c, !.author_id = a, !.thread_id = t] :
                c \in ChannelIds, a \in UserIds, t \in {Undef, "42"}}
      [] event = "MessageDeleted" ->
            {[NoPayload EXCEPT !.id = "m1", !.channel_id = c, !.thread_id = t] :
                c \in ChannelIds, t \in {Undef, "42"}}
      [] event = "TypingStarted" ->
            {[NoPayload EXCEPT !.user_id = a, !.channel_id = c] :
                a \in UserIds, c \in ChannelIds}
      [] event \in {"ReactionAdded", "ReactionRemoved"} ->
            {[NoPayload EXCEPT !.message_id = "m1", !.user_id = a] : a \in UserIds}
      [] event = "ThreadCreated" ->
            {[NoPayload EXCEPT !.id = "42", !.channel_id = c] : c \in ChannelIds}
      [] event = "ThreadUpdated" ->
            {[NoPayload EXCEPT !.id = "42"]}
      [] event = "MemberJoined" ->
            {[NoPayload EXCEPT !.server_id = "s1", !.member_id = a] : a \in UserIds}
      [] event = "MemberLeft" ->
            {[NoPayload EXCEPT !.server_id = "s1", !.user_id = a] : a \in UserIds}
      [] event = "DmCreated" ->
            {[NoPayload EXCEPT !.server_id = "s1", !.channel_id = c, !.sender_id = a] :
                c \in ChannelIds, a \in UserIds}
      [] event = "DmMessageReceived" ->
            {[NoPayload EXCEPT !.server_id = "s1", !.channel_id = c,
                               !.message_msg_id = "m1", !.message_author_id = a] :
                c \in ChannelIds, a \in UserIds}
      [] event = "MentionReceived" ->
            {[NoPayload EXCEPT !.server_id = "s1", !.channel_id = c,
                               !.message_id = "m1", !.author_id = a] :
                c \in ChannelIds, a \in UserIds}
      [] OTHER -> {NoPayload}

\* tags that are none of the 13: one no object has, two every object inherits
OtherTags == {"SomethingElse", "constructor", "__proto__"}

Envelopes ==
    UNION {{[event |-> e, payload |-> p] : p \in Payloads(e)} :
              e \in EventNames \cup OtherTags}

ChannelNames ==
    {ChannelName("private-", "channel", "7"), ChannelName("private-", "thread", "42"),
     ChannelName("private-", "channel", "9x"), ChannelName("private-", "channel", "general"),
     ChannelName("private-", "server", "7"), ChannelName("private-", "user", "1"),
     ChannelName("", "channel", "7"), ChannelName("my-private-", "channel", "7")}

NoInput == [envelope |-> [event |-> "none", payload |-> NoPayload],
            channel |-> ChannelName("", "", "")]

\* start(): the identity from getMe becomes the mapper context
Start(gw, me) ==
    /\ gateway = "none"
    /\ gateway' = gw
    /\ mapperCtx' = [myUserId |-> me, accountId |-> me]
    /\ UNCHANGED <<wireIn, mapped, emitted>>
    /\ UNCHANGED notIngestVars

\* a publication on a subscription / a JSON line on the child's stdout: map it and,
\* unless the result is null, hand the normalized event to the host; an exception
\* is caught and logged, and nothing is handed over
Ingest(gw, envelope, channel) ==
    LET result == mapEvent(envelope, mapperCtx, channel)
    IN /\ gateway = gw
       /\ wireIn' = [envelope |-> envelope, channel |-> channel]
       /\ mapped' = result
       /\ emitted' = IF result = Null \/ result = Raised THEN Null ELSE result.normalized
       /\ UNCHANGED <<mapperCtx, gateway>>
       /\ UNCHANGED notIngestVars

Publication(envelope, channel) == Ingest("centrifugo", envelope, channel)

StdoutLine(envelope, channel) == Ingest("binary", envelope, channel)

----------------------------------------------------------------------------
(* chunkText *)
(* A string is a sequence of one-character strings; indices into it are the *)
(* 0-based indices of the source.                                           *)

SetMax(S) == CHOOSE x \in S : \A y \in S : y <= x
SetMin(S) == CHOOSE x \in S : \A y \in S : x <= y

\* the characters \s matches and trim strips
Whitespace == {" ", "\n"}
\* [.!?]
Punctuation == {".", "!", "?"}

\* the backtick (written ~ here: a string of this language cannot hold a backtick)
BACKTICK == "~"

\* three backticks
FENCE == <<BACKTICK, BACKTICK, BACKTICK>>

\* s.slice(from, to) and s.slice(from)
slice(s, from, to) == SubSeq(s, from + 1, Min(to, Len(s)))
sliceFrom(s, from) == SubSeq(s, from + 1, Len(s))

trimEnd(s) ==
    LET keep == {i \in 1..Len(s) : s[i] \notin Whitespace}
    IN IF keep = {} THEN <<>> ELSE SubSeq(s, 1, SetMax(keep))

trimStartAny(s) ==
    LET keep == {i \in 1..Len(s) : s[i] \notin Whitespace \cup Punctuation}
    IN IF keep = {} THEN <<>> ELSE SubSeq(s, SetMin(keep), Len(s))
trimStart(s) ==
    LET keep == {i \in 1..Len(s) : s[i] \notin Whitespace}
    IN IF keep = {} THEN <<>> ELSE SubSeq(s, SetMin(keep), Len(s))

\* the indices at which pat occurs in s
Occurrences(s, pat) ==
    {i \in 0..(Len(s) - Len(pat)) : SubSeq(s, i + 1, i + Len(pat)) = pat}

lastIndexOf(s, pat) ==
    IF Occurrences(s, pat) = {} THEN -1 ELSE SetMax(Occurrences(s, pat))

indexOf(s, pat, from) ==
    LET at == {i \in Occurrences(s, pat) : i >= from}
    IN IF at = {} THEN -1 ELSE SetMin(at)

\* (s.match(/^FENCE/gm) || []).length: the lines that start with a fence
fenceCount(s) ==
    Cardinality({i \in Occurrences(s, FENCE) : i = 0 \/ s[i] = "\n"})

\* text.match(/[.!?]\s+\S/g) from index `from` on: the matched strings, left to
\* right, without overlap ([] for null).  A match is a punctuation character, the
\* run of whitespace after it and the character that ends the run.
RECURSIVE sentenceMatches(_, _)
sentenceMatches(s, from) ==
    LET ends(i) == {j \in (i + 2)..(Len(s) - 1) : s[j + 1] \notin Whitespace}
        starts == {i \in from..(Len(s) - 3) :
                      /\ s[i + 1] \in Punctuation
                      /\ s[i + 2] \in Whitespace
                      /\ ends(i) # {}}
    IN IF starts = {} THEN <<>>
       ELSE LET i == SetMin(starts)
                j == SetMin(ends(i))
            IN <<SubSeq(s, i + 1, j + 1)>> \o sentenceMatches(s, j + 1)

\* the for loop of findLastSentenceEnd over the matches
RECURSIVE sentenceEndLoop(_, _, _, _)
sentenceEndLoop(s, match, pos, searchFrom) ==
    IF match = <<>> THEN pos
    ELSE LET idx == indexOf(s, Head(match), searchFrom)
         IN IF idx >= 0
            THEN sentenceEndLoop(s, Tail(match), idx + 2, idx + 1)
            ELSE sentenceEndLoop(s, Tail(match), pos, searchFrom)

findLastSentenceEnd(s) ==
    LET match == sentenceMatches(s, 0)
    IN IF match = <<>> THEN -1 ELSE sentenceEndLoop(s, match, -1, 0)

\* x > maxLen * 0.3
PastThirty(x, limit) == 10 * x > 3 * limit

findBreakpointFenceAtZero(s, limit) ==
    LET sl == slice(s, 0, limit)
        lastFenceStart == lastIndexOf(sl, <<"\n">> \o FENCE)
        paraBreak == lastIndexOf(sl, <<"\n", "\n">>)
        lineBreak == lastIndexOf(sl, <<"\n">>)
        sentenceEnd == findLastSentenceEnd(sl)
        wordBreak == lastIndexOf(sl, <<" ">>)
    IN IF fenceCount(sl) % 2 = 1 /\ lastFenceStart >= 0 THEN lastFenceStart
       ELSE IF PastThirty(paraBreak, limit) THEN paraBreak + 2
       ELSE IF PastThirty(lineBreak, limit) THEN lineBreak + 1
       ELSE IF PastThirty(sentenceEnd, limit) THEN sentenceEnd
       ELSE IF PastThirty(wordBreak, limit) THEN wordBreak + 1
       ELSE limit
findBreakpointPastLimit(s, limit) ==
    LET sl == slice(s, 0, limit)
        lastFenceStart == lastIndexOf(sl, <<"\n">> \o FENCE)
        paraBreak == lastIndexOf(sl, <<"\n", "\n">>)
        lineBreak == lastIndexOf(sl, <<"\n">>)
        sentenceEnd == findLastSentenceEnd(sl)
        wordBreak == lastIndexOf(sl, <<" ">>)
    IN IF fenceCount(sl) % 2 = 1 /\ lastFenceStart > 0 THEN lastFenceStart
       ELSE IF PastThirty(paraBreak, limit) THEN paraBreak + 2
       ELSE IF PastThirty(lineBreak, limit) THEN lineBreak + 1
       ELSE IF PastThirty(sentenceEnd, limit) THEN sentenceEnd
       ELSE IF PastThirty(wordBreak, limit) THEN wordBreak + 2
       ELSE limit
findBreakpoint(s, limit) ==
    LET sl == slice(s, 0, limit)
        lastFenceStart == lastIndexOf(sl, <<"\n">> \o FENCE)
        paraBreak == lastIndexOf(sl, <<"\n", "\n">>)
        lineBreak == lastIndexOf(sl, <<"\n">>)
        sentenceEnd == findLastSentenceEnd(sl)
        wordBreak == lastIndexOf(sl, <<" ">>)
    IN IF fenceCount(sl) % 2 = 1 /\ lastFenceStart > 0 THEN lastFenceStart
       ELSE IF PastThirty(paraBreak, limit) THEN paraBreak + 2
       ELSE IF PastThirty(lineBreak, limit) THEN lineBreak + 1
       ELSE IF PastThirty(sentenceEnd, limit) THEN sentenceEnd
       ELSE IF PastThirty(wordBreak, limit) THEN wordBreak + 1
       ELSE limit

\* the while loop of chunkText and the push of what remains
RECURSIVE chunkLoop(_, _, _)
chunkLoop(acc, remaining, limit) ==
    IF Len(remaining) > limit
    THEN LET breakpoint == findBreakpoint(remaining, limit)
         IN chunkLoop(Append(acc, trimEnd(slice(remaining, 0, breakpoint))),
                      trimStart(sliceFrom(remaining, breakpoint)), limit)
    ELSE IF Len(remaining) > 0 THEN Append(acc, remaining)
    ELSE acc

chunkTextNoShortcut(s, limit) ==
    chunkLoop(<<>>, s, limit)
chunkText(s, limit) ==
    IF Len(s) <= limit THEN <<s>> ELSE chunkLoop(<<>>, s, limit)

\* Input texts: up to MaxPieces pieces, each a letter, a space, a newline, a full
\* stop or a fence marker
Pieces == {<<"a">>, <<" ">>, <<"\n">>, <<".">>, FENCE}

RECURSIVE TextsOf(_)
TextsOf(n) ==
    IF n = 0 THEN {<<>>}
    ELSE LET shorter == TextsOf(n - 1)
         IN shorter \cup {t \o piece : t \in shorter, piece \in Pieces}

Texts == TextsOf(MaxPieces)
Limits == 1..MaxLimit

ChunkText ==
    /\ phase = "input"
    /\ chunks' = chunkText(text, maxLen)
    /\ phase' = "done"
    /\ UNCHANGED <<text, maxLen>>
    /\ UNCHANGED notChunkVars

InitChunk ==
    /\ text = <<>>
    /\ maxLen = 1
    /\ chunks = <<>>
    /\ phase = "idle"

----------------------------------------------------------------------------
(* CentrifugoGateway: start, stop, addChannel, removeChannel.  An async method *)
(* runs without interruption up to its next await; what follows the await is   *)
(* a later step.                                                               *)

\* the identity getMe resolves to, the configured server and its member channels
Me == "1"
ServerId == "s1"
Discovered == {"channel.7"}

\* a second server, and what getServerChannels finds on each
OtherServerId == "s2"
DiscoveredOn(serverId) == IF serverId = ServerId THEN Discovered ELSE {"channel.8"}

\* the configurations: servers and channels are optional lists, <<>> when absent
DefaultConfig ==
    [listenMentionsOnly |-> FALSE, servers |-> <<ServerId>>,
     autoJoinServers |-> FALSE, channels |-> <<>>]
Configs ==
    [listenMentionsOnly : BOOLEAN,
     servers : {<<>>, <<ServerId>>, <<ServerId, OtherServerId>>},
     autoJoinServers : BOOLEAN,
     channels : {<<>>, <<"9">>}]

\* the names addChannel and removeChannel are called with, and the calls of addChannel
AddNames == {"channel.7", "thread.42"}
AddCalls == {"a1", "a2"}

\* the subscription name of a channel, and the channels a token response authorizes
SubName(name) == "private-" \o name
Authorized(names) == {SubName(n) : n \in names}

Suspended == {"getMe", "join", "channels", "token"}

\* connect() up to `await this.api.getEventToken(channelList)`
ConnectCall(requested) ==
    /\ requestedChannels' = requested
    /\ channelList' = requested
    /\ authLog' = Append(authLog, requested)
    /\ startPc' = "token"
    /\ UNCHANGED srvIdx

\* start() from the head of its loop over config.servers, at the i-th server,
\* up to its next await; after the last server the explicit channels are
\* added and connect() is called
ServerLoop(i, requested) ==
    IF i <= Len(config.servers)
    THEN /\ srvIdx' = i
         /\ IF config.autoJoinServers
            THEN /\ requestedChannels' = requested
                 /\ startPc' = "join"
            ELSE /\ requestedChannels' = requested \cup {"server." \o config.servers[i]}
                 /\ startPc' = "channels"
         /\ UNCHANGED <<channelList, authLog>>
    ELSE ConnectCall(requested \cup
                     {"channel." \o config.channels[k] : k \in DOMAIN config.channels})

\* start() up to `await this.api.getMe()`
StartCall ==
    /\ startPc = "idle"
    /\ startPc' = "getMe"
    /\ stopped' = FALSE
    /\ gwOp' = "start"
    /\ UNCHANGED <<client, subscriptions, requestedChannels, tokenResponse, myUserId,
                   channelList, addPc, addArg, addList, authLog, stopDuringStart, sinceStop>>
    /\ UNCHANGED <<config, srvIdx>>
    /\ UNCHANGED notGwVars

\* getMe resolved: the interest set is rebuilt, up to the next await
StartGetMeOk ==
    /\ startPc = "getMe"
    /\ myUserId' = Me
    /\ IF config.listenMentionsOnly
       THEN ConnectCall({"user." \o Me})
       ELSE ServerLoop(1, {"user." \o Me})
    /\ gwOp' = "start.getMe"
    /\ UNCHANGED <<client, subscriptions, tokenResponse, addPc, addArg,
                   addList, stopped, stopDuringStart, sinceStop, config>>
    /\ UNCHANGED notGwVars

StartGetMeFailGoesOn ==
    /\ startPc = "getMe"
    /\ ConnectCall({})
    /\ gwOp' = "start.getMe.failed"
    /\ UNCHANGED <<client, subscriptions, tokenResponse, myUserId,
                   addPc, addArg, addList, stopped, stopDuringStart,
                   sinceStop>>
    /\ UNCHANGED config
    /\ UNCHANGED notGwVars
\* getMe rejected: so does start()
StartGetMeFail ==
    /\ startPc = "getMe"
    /\ startPc' = "failed"
    /\ gwOp' = "start.getMe.failed"
    /\ UNCHANGED <<client, subscriptions, requestedChannels, tokenResponse, myUserId,
                   channelList, addPc, addArg, addList, authLog, stopped, stopDuringStart,
                   sinceStop>>
    /\ UNCHANGED <<config, srvIdx>>
    /\ UNCHANGED notGwVars

\* joinServer settled, ok or not (its rejection is caught and ignored): the
\* server is added, up to `await this.api.getServerChannels(serverId)`
StartJoin(ok) ==
    /\ startPc = "join"
    /\ requestedChannels' = requestedChannels \cup {"server." \o config.servers[srvIdx]}
    /\ startPc' = "channels"
    /\ gwOp' = IF ok THEN "start.join" ELSE "start.join.failed"
    /\ UNCHANGED <<client, subscriptions, tokenResponse, myUserId, channelList, addPc,
                   addArg, addList, authLog, stopped, stopDuringStart, sinceStop,
                   config, srvIdx>>
    /\ UNCHANGED notGwVars

\* getServerChannels resolved with the channels found: they are added and the
\* loop goes on
StartChannels(found) ==
    /\ startPc = "channels"
    /\ ServerLoop(srvIdx + 1, requestedChannels \cup found)
    /\ gwOp' = "start.channels"
    /\ UNCHANGED <<client, subscriptions, tokenResponse, myUserId, addPc, addArg,
                   addList, stopped, stopDuringStart, sinceStop, config>>
    /\ UNCHANGED notGwVars

StartChannelsFailFatal ==
    /\ startPc = "channels"
    /\ startPc' = "failed"
    /\ gwOp' = "start.channels.failed"
    /\ UNCHANGED <<client, subscriptions, requestedChannels, tokenResponse, myUserId,
                   channelList, addPc, addArg, addList, authLog, stopped, stopDuringStart,
                   sinceStop, config, srvIdx>>
    /\ UNCHANGED notGwVars
\* getServerChannels rejected: caught, the loop goes on
StartChannelsFail ==
    /\ startPc = "channels"
    /\ ServerLoop(srvIdx + 1, requestedChannels)
    /\ gwOp' = "start.channels.failed"
    /\ UNCHANGED <<client, subscriptions, tokenResponse, myUserId, addPc, addArg,
                   addList, stopped, stopDuringStart, sinceStop, config>>
    /\ UNCHANGED notGwVars

\* the event token arrived: connect() creates the client, one subscription per
\* authorized channel, and connects
StartTokenOk ==
    /\ startPc = "token"
    /\ tokenResponse' = [channels |-> Authorized(channelList)]
    /\ client' = "open"
    /\ subscriptions' = subscriptions \cup Authorized(channelList)
    /\ startPc' = "done"
    /\ gwOp' = "start.connect"
    /\ UNCHANGED <<requestedChannels, myUserId, channelList, addPc, addArg, addList,
                   authLog, stopped, stopDuringStart, sinceStop>>
    /\ UNCHANGED <<config, srvIdx>>
    /\ UNCHANGED notGwVars

\* the event token request rejected: so do connect() and start()
StartTokenFail ==
    /\ startPc = "token"
    /\ startPc' = "failed"
    /\ gwOp' = "start.failed"
    /\ UNCHANGED <<client, subscriptions, requestedChannels, tokenResponse, myUserId,
                   channelList, addPc, addArg, addList, authLog, stopped, stopDuringStart,
                   sinceStop>>
    /\ UNCHANGED <<config, srvIdx>>
    /\ UNCHANGED notGwVars

StopKeepsInterest ==
    /\ subscriptions' = {}
    /\ requestedChannels' = requestedChannels
    /\ client' = "null"
    /\ stopped' = TRUE
    /\ stopDuringStart' = (stopDuringStart \/ startPc \in Suspended)
    /\ sinceStop' = {}
    /\ gwOp' = "stop"
    /\ UNCHANGED <<tokenResponse, myUserId, startPc, channelList, addPc, addArg,
                   addList, authLog>>
    /\ UNCHANGED <<config, srvIdx>>
    /\ UNCHANGED notGwVars
\* stop() has no await: it runs to its end in one step
Stop ==
    /\ subscriptions' = {}
    /\ requestedChannels' = {}
    /\ client' = "null"
    /\ stopped' = TRUE
    /\ stopDuringStart' = (stopDuringStart \/ startPc \in Suspended)
    /\ sinceStop' = {}
    /\ gwOp' = "stop"
    /\ UNCHANGED <<tokenResponse, myUserId, startPc, channelList, addPc, addArg,
                   addList, authLog>>
    /\ UNCHANGED <<config, srvIdx>>
    /\ UNCHANGED notGwVars

AddChannelCallUnguarded(a, name) ==
    /\ addPc[a] = "idle"
    /\ addArg' = [addArg EXCEPT ![a] = name]
    /\ gwOp' = "addChannel"
    /\ requestedChannels' = requestedChannels \cup {name}
    /\ addList' = [addList EXCEPT ![a] = requestedChannels']
    /\ authLog' = Append(authLog, requestedChannels')
    /\ addPc' = [addPc EXCEPT ![a] = "token"]
    /\ UNCHANGED <<client, subscriptions, tokenResponse, myUserId, startPc, channelList,
                   stopped, stopDuringStart, sinceStop>>
    /\ UNCHANGED <<config, srvIdx>>
    /\ UNCHANGED notGwVars
\* addChannel(name) up to `await this.api.getEventToken(...)`
AddChannelCall(a, name) ==
    /\ addPc[a] = "idle"
    /\ addArg' = [addArg EXCEPT ![a] = name]
    /\ gwOp' = "addChannel"
    /\ IF name \in requestedChannels
       THEN /\ addPc' = [addPc EXCEPT ![a] = "done"]
            /\ UNCHANGED <<requestedChannels, addList, authLog>>
       ELSE /\ requestedChannels' = requestedChannels \cup {name}
            /\ addList' = [addList EXCEPT ![a] = requestedChannels']
            /\ authLog' = Append(authLog, requestedChannels')
            /\ addPc' = [addPc EXCEPT ![a] = "token"]
    /\ UNCHANGED <<client, subscriptions, tokenResponse, myUserId, startPc, channelList,
                   stopped, stopDuringStart, sinceStop>>
    /\ UNCHANGED <<config, srvIdx>>
    /\ UNCHANGED notGwVars

AddChannelTokenOkAnyway(a) ==
    /\ addPc[a] = "token"
    /\ tokenResponse' = [channels |-> Authorized(addList[a])]
    /\ subscriptions' = subscriptions \cup {SubName(addArg[a])}
    /\ addPc' = [addPc EXCEPT ![a] = "done"]
    /\ gwOp' = "addChannel.subscribe"
    /\ UNCHANGED <<client, requestedChannels, myUserId, startPc, channelList, addArg,
                   addList, authLog, stopped, stopDuringStart, sinceStop>>
    /\ UNCHANGED <<config, srvIdx>>
    /\ UNCHANGED notGwVars
\* the token arrived: store it and subscribe, if there is a client and no such
\* subscription yet
AddChannelTokenOk(a) ==
    /\ addPc[a] = "token"
    /\ tokenResponse' = [channels |-> Authorized(addList[a])]
    /\ subscriptions' = IF SubName(addArg[a]) \notin subscriptions /\ client # "null"
                        THEN subscriptions \cup {SubName(addArg[a])}
                        ELSE subscriptions
    /\ addPc' = [addPc EXCEPT ![a] = "done"]
    /\ gwOp' = "addChannel.subscribe"
    /\ UNCHANGED <<client, requestedChannels, myUserId, startPc, channelList, addArg,
                   addList, authLog, stopped, stopDuringStart, sinceStop>>
    /\ UNCHANGED <<config, srvIdx>>
    /\ UNCHANGED notGwVars

\* the token request rejected: so does addChannel
AddChannelTokenFail(a) ==
    /\ addPc[a] = "token"
    /\ addPc' = [addPc EXCEPT ![a] = "failed"]
    /\ gwOp' = "addChannel.failed"
    /\ UNCHANGED <<client, subscriptions, requestedChannels, tokenResponse, myUserId,
                   startPc, channelList, addArg, addList, authLog, stopped,
                   stopDuringStart, sinceStop>>
    /\ UNCHANGED <<config, srvIdx>>
    /\ UNCHANGED notGwVars

\* removeChannel(name) has no await
RemoveChannel(name) ==
    /\ requestedChannels' = requestedChannels \ {name}
    /\ subscriptions' = subscriptions \ {SubName(name)}
    /\ gwOp' = "removeChannel"
    /\ UNCHANGED <<client, tokenResponse, myUserId, startPc, channelList, addPc, addArg,
                   addList, authLog, stopped, stopDuringStart, sinceStop>>
    /\ UNCHANGED <<config, srvIdx>>
    /\ UNCHANGED notGwVars

\* the client's 'connected' event: the status callback is called
Connected ==
    /\ client = "open"
    /\ sinceStop' = sinceStop \cup {"connected"}
    /\ gwOp' = "connected"
    /\ UNCHANGED <<client, subscriptions, requestedChannels, tokenResponse, myUserId,
                   startPc, channelList, addPc, addArg, addList, authLog, stopped,
                   stopDuringStart>>
    /\ UNCHANGED <<config, srvIdx>>
    /\ UNCHANGED notGwVars

\* a publication on an open subscription: the event callback is called
Delivered(sub) ==
    /\ sub \in subscriptions
    /\ sinceStop' = sinceStop \cup {"event"}
    /\ gwOp' = "publication"
    /\ UNCHANGED <<client, subscriptions, requestedChannels, tokenResponse, myUserId,
                   startPc, channelList, addPc, addArg, addList, authLog, stopped,
                   stopDuringStart>>
    /\ UNCHANGED <<config, srvIdx>>
    /\ UNCHANGED notGwVars

RefreshCallAtConnect ==
    /\ client = "open"
    /\ refPc # "token"
    /\ refreshes < MaxRefresh
    /\ refList' = channelList
    /\ authLog' = Append(authLog, refList')
    /\ refPc' = "token"
    /\ refreshes' = refreshes + 1
    /\ gwOp' = "refresh"
    /\ UNCHANGED <<client, subscriptions, requestedChannels, tokenResponse, myUserId,
                   startPc, channelList, addPc, addArg, addList, stopped,
                   stopDuringStart, sinceStop, config, srvIdx>>
    /\ UNCHANGED notGatewayVars
\* the client asks for a fresh token: the getToken callback of connect(), up to
\* `await this.api.getEventToken(Array.from(this.requestedChannels))`
RefreshCall ==
    /\ client = "open"
    /\ refPc # "token"
    /\ refreshes < MaxRefresh
    /\ refList' = requestedChannels
    /\ authLog' = Append(authLog, refList')
    /\ refPc' = "token"
    /\ refreshes' = refreshes + 1
    /\ gwOp' = "refresh"
    /\ UNCHANGED <<client, subscriptions, requestedChannels, tokenResponse, myUserId,
                   startPc, channelList, addPc, addArg, addList, stopped,
                   stopDuringStart, sinceStop, config, srvIdx>>
    /\ UNCHANGED notGatewayVars

\* the token arrived: it is stored and handed to the client
RefreshOk ==
    /\ refPc = "token"
    /\ tokenResponse' = [channels |-> Authorized(refList)]
    /\ refPc' = "resolved"
    /\ gwOp' = "refresh.token"
    /\ UNCHANGED <<client, subscriptions, requestedChannels, myUserId, startPc,
                   channelList, addPc, addArg, addList, authLog, stopped,
                   stopDuringStart, sinceStop, config, srvIdx>>
    /\ UNCHANGED <<refList, refreshes>>
    /\ UNCHANGED notGatewayVars

\* the token request rejected: logged and thrown on to the client
RefreshFail ==
    /\ refPc = "token"
    /\ refPc' = "rejected"
    /\ gwOp' = "refresh.failed"
    /\ UNCHANGED <<client, subscriptions, requestedChannels, tokenResponse, myUserId,
                   startPc, channelList, addPc, addArg, addList, authLog, stopped,
                   stopDuringStart, sinceStop, config, srvIdx>>
    /\ UNCHANGED <<refList, refreshes>>
    /\ UNCHANGED notGatewayVars

\* the publications of the gateway's subscriptions: one that is delivered, a
\* self-echo (mapped to null), the two that ask for a subscription, and an
\* inherited tag (mapEvent throws)
PubEnvelopes ==
    {[event |-> "MessageSent",
      payload |-> [NoPayload EXCEPT !.id = "m1", !.channel_id = "7", !.author_id = a]] :
         a \in UserIds}
    \cup {[event |-> "ThreadCreated",
           payload |-> [NoPayload EXCEPT !.id = "42", !.channel_id = "7"]],
          [event |-> "DmCreated",
           payload |-> [NoPayload EXCEPT !.server_id = "s1", !.channel_id = "9",
                                         !.sender_id = "2"]],
          [event |-> "__proto__", payload |-> NoPayload]}

\* the channel a subscription of the gateway was opened on
SubChannel(sub) ==
    CASE sub = SubName("user." \o Me) -> ChannelName("private-", "user", Me)
      [] sub = SubName("server." \o ServerId) -> ChannelName("private-", "server", ServerId)
      [] sub = SubName("channel.7") -> ChannelName("private-", "channel", "7")
      [] sub = SubName("channel.9") -> ChannelName("private-", "channel", "9")
      [] sub = SubName("thread.42") -> ChannelName("private-", "thread", "42")

\* this.mapperCtx, set by start() together with myUserId
MapperCtx == [myUserId |-> myUserId, accountId |-> myUserId]

OnPublicationUncaught(sub, envelope, throws) ==
    LET channel == SubChannel(sub)
        result == mapEvent(envelope, MapperCtx, channel)
        returned == result # Null /\ result # Raised
    IN /\ sub \in subscriptions
       /\ throws => returned
       /\ wireIn' = [envelope |-> envelope, channel |-> channel]
       /\ mapped' = result
       /\ emitted' = IF returned THEN result.normalized ELSE Null
       /\ hostThrew' = throws
       /\ thrown' = (thrown \/ throws)
       /\ outcome' = IF result = Raised \/ throws THEN "threw" ELSE "returned"
       /\ sinceStop' = IF returned THEN sinceStop \cup {"event"} ELSE sinceStop
       /\ IF returned /\ ~throws /\ result.autoSubscribe # Undef
          THEN \E a \in AddCalls :
                  /\ addPc[a] = "idle"
                  /\ a = "a2" => addPc["a1"] # "idle"
                  /\ addArg' = [addArg EXCEPT ![a] = result.autoSubscribe]
                  /\ autoCalls' = autoCalls \cup {a}
                  /\ IF result.autoSubscribe \in requestedChannels
                     THEN /\ addPc' = [addPc EXCEPT ![a] = "done"]
                          /\ UNCHANGED <<requestedChannels, addList, authLog>>
                     ELSE /\ requestedChannels' =
                                requestedChannels \cup {result.autoSubscribe}
                          /\ addList' = [addList EXCEPT ![a] = requestedChannels']
                          /\ authLog' = Append(authLog, requestedChannels')
                          /\ addPc' = [addPc EXCEPT ![a] = "token"]
          ELSE UNCHANGED <<requestedChannels, addPc, addArg, addList, authLog, autoCalls>>
       /\ gwOp' = "publication"
       /\ UNCHANGED <<client, subscriptions, tokenResponse, myUserId, startPc, channelList,
                      stopped, stopDuringStart, config, srvIdx>>
       /\ UNCHANGED <<mapperCtx, gateway>>
       /\ UNCHANGED notHandlerVars
\* a publication on a subscription, the whole handler of wireSubscription: the
\* event is mapped and, unless the result is null, handed to the host's event
\* callback; then, if the result asks for it, addChannel is called (and runs up
\* to its await). An exception of mapEvent or of the callback leaves the try
\* block at once and is logged
OnPublication(sub, envelope, throws) ==
    LET channel == SubChannel(sub)
        result == mapEvent(envelope, MapperCtx, channel)
        returned == result # Null /\ result # Raised
    IN /\ sub \in subscriptions
       /\ throws => returned
       /\ wireIn' = [envelope |-> envelope, channel |-> channel]
       /\ mapped' = result
       /\ emitted' = IF returned THEN result.normalized ELSE Null
       /\ hostThrew' = throws
       /\ thrown' = (thrown \/ throws)
       /\ outcome' = IF result = Raised \/ throws THEN "caught" ELSE "returned"
       /\ sinceStop' = IF returned THEN sinceStop \cup {"event"} ELSE sinceStop
       /\ IF returned /\ ~throws /\ result.autoSubscribe # Undef
          THEN \E a \in AddCalls :
                  /\ addPc[a] = "idle"
                  /\ a = "a2" => addPc["a1"] # "idle"
                  /\ addArg' = [addArg EXCEPT ![a] = result.autoSubscribe]
                  /\ autoCalls' = autoCalls \cup {a}
                  /\ IF result.autoSubscribe \in requestedChannels
                     THEN /\ addPc' = [addPc EXCEPT ![a] = "done"]
                          /\ UNCHANGED <<requestedChannels, addList, authLog>>
                     ELSE /\ requestedChannels' =
                                requestedChannels \cup {result.autoSubscribe}
                          /\ addList' = [addList EXCEPT ![a] = requestedChannels']
                          /\ authLog' = Append(authLog, requestedChannels')
                          /\ addPc' = [addPc EXCEPT ![a] = "token"]
          ELSE UNCHANGED <<requestedChannels, addPc, addArg, addList, authLog, autoCalls>>
       /\ gwOp' = "publication"
       /\ UNCHANGED <<client, subscriptions, tokenResponse, myUserId, startPc, channelList,
                      stopped, stopDuringStart, config, srvIdx>>
       /\ UNCHANGED <<mapperCtx, gateway>>
       /\ UNCHANGED notHandlerVars

\* the token request of an auto-subscribe rejected: so does its addChannel, and
\* the handler's .catch logs it
AutoSubscribeFailed(a) ==
    /\ a \in autoCalls
    /\ addPc[a] = "token"
    /\ addPc' = [addPc EXCEPT ![a] = "failed"]
    /\ outcome' = "caught"
    /\ hostThrew' = FALSE
    /\ gwOp' = "addChannel.failed"
    /\ UNCHANGED <<client, subscriptions, requestedChannels, tokenResponse, myUserId,
                   startPc, channelList, addArg, addList, authLog, stopped,
                   stopDuringStart, sinceStop, config, srvIdx>>
    /\ UNCHANGED <<thrown, autoCalls>>
    /\ UNCHANGED notHostVars

\* the client's 'connected' and 'disconnected' events: the status callback is
\* called inside try/catch
OnStatus(status, throws) ==
    /\ client = "open"
    /\ sinceStop' = sinceStop \cup {status}
    /\ hostThrew' = throws
    /\ thrown' = (thrown \/ throws)
    /\ outcome' = IF throws THEN "caught" ELSE "returned"
    /\ gwOp' = status
    /\ UNCHANGED <<client, subscriptions, requestedChannels, tokenResponse, myUserId,
                   startPc, channelList, addPc, addArg, addList, authLog, stopped,
                   stopDuringStart, config, srvIdx>>
    /\ UNCHANGED autoCalls
    /\ UNCHANGED notHostVars

InitHost ==
    /\ outcome = "returned"
    /\ hostThrew = FALSE
    /\ thrown = FALSE
    /\ autoCalls = {}

\* ---- BinaryGateway ----

\* a line of the child's stdout: text that is not JSON, the JSON text null,
\* or a JSON object with event, payload and channel
NotJson == [kind |-> "text", event |-> "none", payload |-> NoPayload,
            channel |-> ChannelName("", "", "")]
JsonNull == [NotJson EXCEPT !.kind = "null"]
JsonLine(event, payload, channel) ==
    [kind |-> "object", event |-> event, payload |-> payload, channel |-> channel]

\* a payload that carries a field named normalized
ForgedPayload ==
    [normalized |-> Normalized("m9", "7", Undef, [accountId |-> "9"], "message", "2",
                               Undef, Undef)]

StdoutLines ==
    {NotJson, JsonNull}
    \cup {JsonLine("MessageSent",
                   [NoPayload EXCEPT !.id = "m1", !.channel_id = "7", !.author_id = a],
                   ChannelName("private-", "channel", "7")) : a \in UserIds}
    \cup {JsonLine("ReactionAdded",
                   [NoPayload EXCEPT !.message_id = "m1", !.user_id = "2"],
                   ChannelName("private-", "channel", "7"))}
    \cup {JsonLine(tag, payload, ChannelName("private-", "channel", "7")) :
             tag \in OtherTags, payload \in {NoPayload, ForgedPayload}}

\* what the host's callbacks are called with
EventEntry(normalized) == [callback |-> "onEvent", arg |-> normalized]
StatusEntry(status) == [callback |-> "onStatus", arg |-> status]

BinCtx == [myUserId |-> binUserId, accountId |-> binUserId]

\* start() up to `await this.api.getMe()`
BinStartCall ==
    /\ binStartPc = "idle"
    /\ binStartPc' = "getMe"
    /\ binOp' = "start"
    /\ UNCHANGED <<proc, child, stdoutRl, stderrRl, binUserId, binStopPc, line, errLine,
                   hostLog, discarded>>
    /\ UNCHANGED hostVars
    /\ UNCHANGED notBinVars

\* getMe rejected: so does start()
BinStartGetMeFail ==
    /\ binStartPc = "getMe"
    /\ binStartPc' = "failed"
    /\ binOp' = "start.getMe.failed"
    /\ UNCHANGED <<proc, child, stdoutRl, stderrRl, binUserId, binStopPc, line, errLine,
                   hostLog, discarded>>
    /\ UNCHANGED hostVars
    /\ UNCHANGED notBinVars

\* getMe resolved: without a first server start() throws; otherwise the child
\* is spawned (spawned tells whether that worked) and its events and the lines
\* of its two streams are wired
BinStartGetMeOk(spawned) ==
    /\ binStartPc = "getMe"
    /\ binUserId' = Me
    /\ IF config.servers = <<>>
       THEN /\ binStartPc' = "failed"
            /\ UNCHANGED <<proc, child, stdoutRl, stderrRl>>
       ELSE /\ binStartPc' = "done"
            /\ proc' = "child"
            /\ child' = IF spawned THEN "running" ELSE "unspawned"
            /\ stdoutRl' = "open"
            /\ stderrRl' = "open"
    /\ binOp' = "start.getMe"
    /\ UNCHANGED <<binStopPc, line, errLine, hostLog, discarded>>
    /\ UNCHANGED hostVars
    /\ UNCHANGED notBinVars

\* the child's 'error' event after a failed spawn: the status callback is called
BinProcError(throws) ==
    /\ child = "unspawned"
    /\ Len(hostLog) < MaxHostLog
    /\ child' = "failed"
    /\ hostLog' = Append(hostLog, StatusEntry("disconnected"))
    /\ hostThrew' = throws
    /\ thrown' = (thrown \/ throws)
    /\ outcome' = IF throws THEN "caught" ELSE "returned"
    /\ binOp' = "error"
    /\ UNCHANGED <<proc, stdoutRl, stderrRl, binUserId, binStartPc, binStopPc, line,
                   errLine, discarded>>
    /\ UNCHANGED autoCalls
    /\ UNCHANGED notBinVars

\* the child's 'close' event: the status callback is called and proc is cleared;
\* a stop() that awaits the event goes on to its end
BinProcClose(throws) ==
    /\ child \in {"running", "failed"}
    /\ Len(hostLog) < MaxHostLog
    /\ child' = "exited"
    /\ proc' = "null"
    /\ hostLog' = Append(hostLog, StatusEntry("disconnected"))
    /\ binStopPc' = IF binStopPc = "close" THEN "done" ELSE binStopPc
    /\ hostThrew' = throws
    /\ thrown' = (thrown \/ throws)
    /\ outcome' = IF throws THEN "caught" ELSE "returned"
    /\ binOp' = "close"
    /\ UNCHANGED <<stdoutRl, stderrRl, binUserId, binStartPc, line, errLine, discarded>>
    /\ UNCHANGED autoCalls
    /\ UNCHANGED notBinVars

\* a line of the child's stderr, as the words it is made of
StderrLines ==
    {<<"websocket", "connected">>,
     <<"websocket", "disconnected">>,
     <<"websocket", "disconnected", "then", "websocket", "connected">>,
     <<"connected">>,
     <<"websocket", "error">>}

\* String.prototype.includes, on sequences of words
includes(l, sub) == \E i \in 1..(Len(l) - Len(sub) + 1) : SubSeq(l, i, i + Len(sub) - 1) = sub

\* the status reported for a line if 'websocket disconnected' were tested first
statusOfLineDisconnectedFirst(l) ==
    IF includes(l, <<"websocket", "disconnected">>) THEN "disconnected"
    ELSE IF includes(l, <<"websocket", "connected">>) THEN "connected"
    ELSE "none"
\* the status the stderr handler reports for a line, "none" if it reports nothing
statusOfLine(l) ==
    IF includes(l, <<"websocket", "connected">>) THEN "connected"
    ELSE IF includes(l, <<"websocket", "disconnected">>) THEN "disconnected"
    ELSE "none"

\* a line on the child's stderr: 'connected' when it contains 'websocket
\* connected', else 'disconnected' when it contains 'websocket disconnected'
BinStderrLine(l, throws) ==
    /\ stderrRl = "open"
    /\ child = "running"
    /\ Len(hostLog) < MaxHostLog
    /\ throws => statusOfLine(l) # "none"
    /\ errLine' = l
    /\ hostLog' = IF statusOfLine(l) = "none" THEN hostLog
                  ELSE Append(hostLog, StatusEntry(statusOfLine(l)))
    /\ hostThrew' = throws
    /\ thrown' = (thrown \/ throws)
    /\ outcome' = IF throws THEN "caught" ELSE "returned"
    /\ binOp' = "stderr"
    /\ UNCHANGED <<proc, child, stdoutRl, stderrRl, binUserId, binStartPc, binStopPc, line,
                   discarded>>
    /\ UNCHANGED autoCalls
    /\ UNCHANGED notBinVars

\* a line on the child's stdout: text that JSON.parse rejects is dropped; of
\* the parsed value the fields event, payload and channel are read (the value
\* null has none: TypeError), the envelope is mapped and, unless the result is
\* null, handed to the host's event callback; an exception is caught and logged
BinStdoutLine(l, throws) ==
    LET result == IF l.kind = "null" THEN Raised
                  ELSE mapEvent([event |-> l.event, payload |-> l.payload], BinCtx,
                                l.channel)
        returned == l.kind # "text" /\ result # Null /\ result # Raised
    IN /\ stdoutRl = "open"
       /\ child = "running"
       /\ Len(hostLog) < MaxHostLog
       /\ throws => returned
       /\ line' = l
       /\ hostLog' = IF returned THEN Append(hostLog, EventEntry(result.normalized))
                     ELSE hostLog
       /\ discarded' = (discarded \/ ~returned)
       /\ hostThrew' = throws
       /\ thrown' = (thrown \/ throws)
       /\ outcome' = IF l.kind # "text" /\ (result = Raised \/ throws)
                     THEN "caught" ELSE "returned"
       /\ binOp' = "stdout"
       /\ UNCHANGED <<proc, child, stdoutRl, stderrRl, binUserId, binStartPc, binStopPc,
                      errLine>>
       /\ UNCHANGED autoCalls
       /\ UNCHANGED notBinVars

\* stop(): both line readers are closed and cleared; if there is a child, proc
\* is cleared and, unless the child has exited already, it is sent SIGTERM and
\* its 'close' event is awaited
BinStop ==
    /\ stdoutRl' = "null"
    /\ stderrRl' = "null"
    /\ proc' = "null"
    /\ binStopPc' = IF proc = "null" THEN (IF binStopPc = "close" THEN "close" ELSE "done")
                    ELSE IF child \in {"failed", "exited"} THEN "done"
                    ELSE "close"
    /\ binOp' = "stop"
    /\ UNCHANGED <<child, binUserId, binStartPc, line, errLine, hostLog, discarded>>
    /\ UNCHANGED hostVars
    /\ UNCHANGED notBinVars

\* the five seconds stop() gives the child are over: SIGKILL, and stop() ends
BinStopTimeout ==
    /\ binStopPc = "close"
    /\ binStopPc' = "done"
    /\ binOp' = "stop.timeout"
    /\ UNCHANGED <<proc, child, stdoutRl, stderrRl, binUserId, binStartPc, line, errLine,
                   hostLog, discarded>>
    /\ UNCHANGED hostVars
    /\ UNCHANGED notBinVars

InitBin ==
    /\ proc = "null"
    /\ child = "none"
    /\ stdoutRl = "null"
    /\ stderrRl = "null"
    /\ binUserId = ""
    /\ binStartPc = "idle"
    /\ binStopPc = "idle"
    /\ line = NotJson
    /\ errLine = <<>>
    /\ hostLog = <<>>
    /\ discarded = FALSE
    /\ binOp = "new"

InitRefresh ==
    /\ refPc = "idle"
    /\ refList = {}
    /\ refreshes = 0

\* a new gateway, whatever its configuration
InitGwState ==
    /\ client = "null"
    /\ subscriptions = {}
    /\ requestedChannels = {}
    /\ tokenResponse = Null
    /\ myUserId = ""
    /\ startPc = "idle"
    /\ channelList = {}
    /\ addPc = [a \in AddCalls |-> "idle"]
    /\ addArg = [a \in AddCalls |-> ""]
    /\ addList = [a \in AddCalls |-> {}]
    /\ authLog = <<>>
    /\ stopped = FALSE
    /\ stopDuringStart = FALSE
    /\ sinceStop = {}
    /\ gwOp = "new"
    /\ srvIdx = 0

InitGw ==
    /\ InitGwState
    /\ config = DefaultConfig

----------------------------------------------------------------------------
(* OutboundService (src/src/outbound.ts): sendText with its typing          *)
(* indicator, and stopAll.  A call of sendText is followed through its      *)
(* awaits; the REST calls it makes resolve or reject in any order with      *)
(* respect to the other calls.  A text is represented by the number of      *)
(* chunks chunkText makes of it, a timer by the call that armed it.  The    *)
(* delay between two chunks and the keep-alive's period are timers that     *)
(* fire at some later step.                                                 *)

Sends == {"s1", "s2"}
\* a channel and a thread (options.threadId)
Targets == {"c1", "t1"}
NoTimer == "none"

\* sendText: const isThread = !!options?.threadId
isThread(target) == target = "t1"

\* the REST call sendText makes for chunk i
ChunkCall(target, i) ==
    [api |-> IF isThread(target) THEN "sendThreadMessage" ELSE "sendMessage",
     target |-> target, chunk |-> i]

\* stopTyping(target): clear and forget the timer the map holds for target
stopTyping(target) ==
    /\ activeTimers' = activeTimers \ {typingTimers[target]}
    /\ typingTimers' = [typingTimers EXCEPT ![target] = NoTimer]

\* sendText(channelId, text, options) is called: up to its first await
SendText(s, target, n) ==
    /\ sendPc[s] = "idle"
    /\ sendTarget' = [sendTarget EXCEPT ![s] = target]
    /\ sendChunks' = [sendChunks EXCEPT ![s] = n]
    /\ IF sendTypingIndicators
         THEN /\ sendPc' = [sendPc EXCEPT ![s] = "typing"]
              /\ typingCalls' = typingCalls + 1
              /\ UNCHANGED calls
         ELSE /\ sendPc' = [sendPc EXCEPT ![s] = "chunk"]
              /\ calls' = [calls EXCEPT ![s] = <<ChunkCall(target, 1)>>]
              /\ UNCHANGED typingCalls
    /\ sendOp' = "sendText"
    /\ UNCHANGED <<messages, typingTimers, activeTimers, sendTypingIndicators>>
    /\ UNCHANGED notSendVars

\* startTyping after its await send(): the first typing signal has settled
\* (a rejection is swallowed), the keep-alive is armed and stored
StartTypingArmed(s) ==
    /\ sendPc[s] = "typing"
    /\ activeTimers' = activeTimers \cup {s}
    /\ typingTimers' = [typingTimers EXCEPT ![sendTarget[s]] = s]
    /\ sendPc' = [sendPc EXCEPT ![s] = "armed"]
    /\ sendOp' = "startTyping"
    /\ UNCHANGED <<sendTarget, sendChunks, calls, messages, typingCalls,
                   sendTypingIndicators>>
    /\ UNCHANGED notSendVars

\* sendText resumes after await this.startTyping(), and the calls for all
\* chunks are made at once
SendTextResumedAll(s) ==
    /\ sendPc[s] = "armed"
    /\ sendPc' = [sendPc EXCEPT ![s] = "chunk"]
    /\ calls' = [calls EXCEPT ![s] =
                   [i \in 1..sendChunks[s] |-> ChunkCall(sendTarget[s], i)]]
    /\ sendOp' = "sendText.resumed"
    /\ UNCHANGED <<sendTarget, sendChunks, messages, typingTimers, activeTimers,
                   typingCalls, sendTypingIndicators>>
    /\ UNCHANGED notSendVars

\* sendText resumes after await this.startTyping(): the call for the first chunk
SendTextResumed(s) ==
    /\ sendPc[s] = "armed"
    /\ sendPc' = [sendPc EXCEPT ![s] = "chunk"]
    /\ calls' = [calls EXCEPT ![s] = <<ChunkCall(sendTarget[s], 1)>>]
    /\ sendOp' = "sendText.resumed"
    /\ UNCHANGED <<sendTarget, sendChunks, messages, typingTimers, activeTimers,
                   typingCalls, sendTypingIndicators>>
    /\ UNCHANGED notSendVars

\* the REST call for the current chunk resolved: messages.push(msg), then the
\* delay before the next chunk, or finally and return after the last one
ChunkSent(s) ==
    /\ sendPc[s] = "chunk"
    /\ messages' = [messages EXCEPT ![s] = Append(@, calls[s][Len(calls[s])].chunk)]
    /\ IF Len(messages[s]) + 1 < sendChunks[s]
         THEN /\ sendPc' = [sendPc EXCEPT ![s] = "delay"]
              /\ UNCHANGED <<typingTimers, activeTimers>>
         ELSE /\ stopTyping(sendTarget[s])
              /\ sendPc' = [sendPc EXCEPT ![s] = "returned"]
    /\ sendOp' = "chunk.sent"
    /\ UNCHANGED <<sendTarget, sendChunks, calls, typingCalls, sendTypingIndicators>>
    /\ UNCHANGED notSendVars

\* the REST call for the current chunk rejected: finally, and the error
\* reaches the caller
ChunkFailed(s) ==
    /\ sendPc[s] = "chunk"
    /\ stopTyping(sendTarget[s])
    /\ sendPc' = [sendPc EXCEPT ![s] = "threw"]
    /\ sendOp' = "chunk.failed"
    /\ UNCHANGED <<sendTarget, sendChunks, calls, messages, typingCalls,
                   sendTypingIndicators>>
    /\ UNCHANGED notSendVars

\* sleep(CHUNK_DELAY_MS) is over: the call for the next chunk
DelayOver(s) ==
    /\ sendPc[s] = "delay"
    /\ sendPc' = [sendPc EXCEPT ![s] = "chunk"]
    /\ calls' = [calls EXCEPT ![s] =
                   Append(@, ChunkCall(sendTarget[s], Len(messages[s]) + 1))]
    /\ sendOp' = "delay.over"
    /\ UNCHANGED <<sendTarget, sendChunks, messages, typingTimers, activeTimers,
                   typingCalls, sendTypingIndicators>>
    /\ UNCHANGED notSendVars

\* a keep-alive timer fires: one more typing signal, its error swallowed
KeepAlive(t) ==
    /\ t \in activeTimers
    /\ typingCalls < MaxTyping
    /\ typingCalls' = typingCalls + 1
    /\ sendOp' = "keepAlive"
    /\ UNCHANGED <<sendPc, sendTarget, sendChunks, calls, messages, typingTimers,
                   activeTimers, sendTypingIndicators>>
    /\ UNCHANGED notSendVars

\* stopAll(): clear every timer the map holds, and the map
StopAll ==
    /\ activeTimers' = activeTimers \ {typingTimers[t] : t \in Targets}
    /\ typingTimers' = [t \in Targets |-> NoTimer]
    /\ sendOp' = "stopAll"
    /\ UNCHANGED <<sendPc, sendTarget, sendChunks, calls, messages, typingCalls,
                   sendTypingIndicators>>
    /\ UNCHANGED notSendVars

\* a new OutboundService, whatever its sendTypingIndicators
InitSendState ==
    /\ sendPc = [s \in Sends |-> "idle"]
    /\ sendTarget = [s \in Sends |-> "c1"]
    /\ sendChunks = [s \in Sends |-> 1]
    /\ calls = [s \in Sends |-> <<>>]
    /\ messages = [s \in Sends |-> <<>>]
    /\ typingTimers = [t \in Targets |-> NoTimer]
    /\ activeTimers = {}
    /\ typingCalls = 0
    /\ sendOp = "new"

InitSend ==
    /\ InitSendState
    /\ sendTypingIndicators = TRUE

----------------------------------------------------------------------------
(* ApiClient.request (src/unnamed/part_004): the two waits for a slot, the  *)
(* fetch, the limiter update from the response, the retry after a 429.  A   *)
(* caller of the limiter is here one call of request; between its awaits    *)
(* the other call and the clock take their steps.                           *)

\* res.headers.get(name): null when the response has no such header, else its
\* value, here the number parseInt makes of it
NoHeader == <<>>
Header(v) == <<v>>

\* rateLimitKey of the request: none (get, typing, ...) or the target's message bucket
RateLimitKeys == {"", "msg:c1"}
PathOf(key) == IF key = "" THEN "/users/@me" ELSE "/channels/c1/messages"

\* res.status: ok with a body, ok without, rate limited, another failure
Statuses == {200, 204, 429, 500}
\* X-RateLimit-Remaining: absent, or none left
RemainingHeaders == {NoHeader, Header(0)}
\* Retry-After: absent, or a number of seconds
RetryAfters == {NoHeader, Header(30)}
\* res.text(): the body, or a rejection that becomes ''
Bodies == {"", "Server Error"}

ApiError(status, body, path) == [name |-> "ApiError", status |-> status, body |-> body,
                                 path |-> path]

\* parsed = parseInt(Retry-After ?? '', 10); finite and > 0 ? parsed : 5, in ms
retryAfterMs(header) ==
    (IF header # NoHeader /\ header[1] > 0 THEN header[1] ELSE 5) * 1000

\* what the consume at the end of waitForSlot returned to it
Slot(ret) == IF ret THEN "acquired" ELSE "refused"

\* a call of request is about to resume after an await of waitForSlot that has
\* resolved: a microtask, which runs before any timer or response is handled
Resuming(c) == reqPc[c] \in {"global", "scoped"} /\ pc[c] = "returned"
MacrotaskTurn == \A c \in Callers : ~Resuming(c)

\* const res = await fetch(...) is reached: the request goes out
Fetch(c, global, scoped) ==
    /\ fetchLog' = [fetchLog EXCEPT ![c] = Append(@, [global |-> global, scoped |-> scoped])]
    /\ reqPc' = [reqPc EXCEPT ![c] = "fetch"]

\* request(method, path, options) is called: up to the await in waitForSlot('global')
Request(c, key) ==
    /\ reqPc[c] = "idle"
    /\ waitForSlot(c, "global")
    /\ reqKey' = [reqKey EXCEPT ![c] = key]
    /\ reqPc' = [reqPc EXCEPT ![c] = "global"]
    /\ reqOp' = "request"
    /\ UNCHANGED <<slotG, fetchLog, backoffAt, reqResult, reqRes>>
    /\ UNCHANGED notReqVars

\* request resumes after await waitForSlot('global'): the scoped wait if the
\* request has a key, else the fetch
GlobalSlotReturned(c) ==
    /\ reqPc[c] = "global"
    /\ pc[c] = "returned"
    /\ slotG' = [slotG EXCEPT ![c] = Slot(got[c])]
    /\ IF reqKey[c] # ""
         THEN /\ waitForSlot(c, reqKey[c])
              /\ reqPc' = [reqPc EXCEPT ![c] = "scoped"]
              /\ UNCHANGED fetchLog
         ELSE /\ Fetch(c, Slot(got[c]), "none")
              /\ UNCHANGED limiterVars
    /\ reqOp' = "global.returned"
    /\ UNCHANGED <<reqKey, backoffAt, reqResult, reqRes>>
    /\ UNCHANGED notReqVars

\* request resumes after await waitForSlot(rateLimitKey): the fetch
ScopedSlotReturned(c) ==
    /\ reqPc[c] = "scoped"
    /\ pc[c] = "returned"
    /\ Fetch(c, slotG[c], Slot(got[c]))
    /\ reqOp' = "scoped.returned"
    /\ UNCHANGED <<reqKey, slotG, backoffAt, reqResult, reqRes>>
    /\ UNCHANGED limiterVars
    /\ UNCHANGED notReqVars

\* the response arrives: updateFromHeaders if it carries X-RateLimit-Remaining,
\* then by status the backoff, undefined, ApiError (after res.text()) or the JSON
Response(c, status, remaining, retryAfter, body) ==
    /\ reqPc[c] = "fetch"
    /\ MacrotaskTurn
    /\ status = 429 => Len(fetchLog[c]) < MaxFetches
    /\ IF remaining # NoHeader
         THEN /\ buckets' = updateFromHeaders(buckets, "global", limits["global"],
                                              remaining[1], now).bs
              /\ ref' = updateFromHeaders(ref, "global", limits["global"], remaining[1],
                                          now).bs
              /\ last' = Call("updateFromHeaders", "global", remaining[1], TRUE, TRUE)
              /\ burst' = Spoil("global")
         ELSE UNCHANGED <<buckets, ref, last, burst>>
    /\ CASE status = 429 ->
              /\ reqPc' = [reqPc EXCEPT ![c] = "backoff"]
              /\ backoffAt' = [backoffAt EXCEPT ![c] = now + retryAfterMs(retryAfter)]
              /\ UNCHANGED reqResult
         [] status = 204 ->
              /\ reqPc' = [reqPc EXCEPT ![c] = "returned"]
              /\ reqResult' = [reqResult EXCEPT ![c] = [value |-> Undef]]
              /\ UNCHANGED backoffAt
         [] status \notin {429, 204} /\ (status < 200 \/ status > 299) ->
              /\ reqPc' = [reqPc EXCEPT ![c] = "threw"]
              /\ reqResult' = [reqResult EXCEPT ![c] = ApiError(status, body, PathOf(reqKey[c]))]
              /\ UNCHANGED backoffAt
         [] OTHER ->
              /\ reqPc' = [reqPc EXCEPT ![c] = "returned"]
              /\ reqResult' = [reqResult EXCEPT ![c] = [value |-> "json"]]
              /\ UNCHANGED backoffAt
    /\ reqRes' = [reqRes EXCEPT ![c] = [status |-> status, body |-> body]]
    /\ reqOp' = "response"
    /\ UNCHANGED <<reqKey, slotG, fetchLog>>
    /\ UNCHANGED <<now, ticks, pc, wkey, wakeAt, got, limits>>
    /\ UNCHANGED notReqVars

\* the backoff timer fires: return this.request(method, path, options), up to
\* the await in its waitForSlot('global')
BackoffOver(c) ==
    /\ reqPc[c] = "backoff"
    /\ MacrotaskTurn
    /\ now >= backoffAt[c]
    /\ waitForSlot(c, "global")
    /\ reqPc' = [reqPc EXCEPT ![c] = "global"]
    /\ reqOp' = "retry"
    /\ UNCHANGED <<reqKey, slotG, fetchLog, backoffAt, reqResult, reqRes>>
    /\ UNCHANGED notReqVars

\* the timer of waitForSlot fires inside a call of request
SlotTimerFired(c) ==
    /\ reqPc[c] \in {"global", "scoped"}
    /\ MacrotaskTurn
    /\ WaitForSlotWake(c)

\* time passes up to the moment the timer of waitForSlot is due
SlotTimerDue(c) ==
    /\ reqPc[c] \in {"global", "scoped"}
    /\ MacrotaskTurn
    /\ TimerDue(c)

\* time passes up to the moment a backoff timer is due
BackoffDue(c) ==
    /\ reqPc[c] = "backoff"
    /\ MacrotaskTurn
    /\ backoffAt[c] > now
    /\ Advance(backoffAt[c])

InitReq ==
    /\ reqPc = [c \in Callers |-> "idle"]
    /\ reqKey = [c \in Callers |-> ""]
    /\ slotG = [c \in Callers |-> "none"]
    /\ fetchLog = [c \in Callers |-> <<>>]
    /\ backoffAt = [c \in Callers |-> 0]
    /\ reqResult = [c \in Callers |-> Null]
    /\ reqRes = [c \in Callers |-> Null]
    /\ reqOp = "new"

InitIngest ==
    /\ mapperCtx = [myUserId |-> "", accountId |-> ""]
    /\ gateway = "none"
    /\ wireIn = NoInput
    /\ mapped = Null
    /\ emitted = Null

InitLimiter ==
    /\ now = 0
    /\ ticks = 0
    /\ buckets = NoBuckets
    /\ ref = NoBuckets
    /\ last = Call("new", "", 0, TRUE, TRUE)
    /\ burst = [k \in Scopes |-> -1]
    /\ pc = [c \in Callers |-> "idle"]
    /\ wkey = [c \in Callers |-> "global"]
    /\ wakeAt = [c \in Callers |-> 0]
    /\ got = [c \in Callers |-> FALSE]
    /\ limits \in {[k \in Scopes |-> c] : c \in Capacities}

Init ==
    /\ InitLimiter
    /\ InitIngest
    /\ InitChunk
    /\ InitGw
    /\ InitRefresh
    /\ InitHost
    /\ InitBin
    /\ InitSend
    /\ InitReq

\* the limiter's synchronous calls, and time
Next ==
    \/ \E key \in Scopes : CanConsume(key)
    \/ \E key \in Scopes : Consume(key)
    \/ \E key \in Scopes : MsUntilAvailable(key)
    \/ \E key \in Scopes, remaining \in Remainings : UpdateFromHeaders(key, remaining)
    \/ \E d \in TickSteps : Tick(d)

Spec == Init /\ [][Next]_vars

\* concurrent callers of waitForSlot
NextWait ==
    \/ \E c \in Callers, key \in Scopes : WaitForSlotCall(c, key)
    \/ \E c \in Callers : WaitForSlotWake(c)
    \/ \E d \in TickSteps : Tick(d)
    \/ \E c \in Callers : TimerDue(c)

SpecWait == Init /\ [][NextWait]_vars

----------------------------------------------------------------------------
(* Claims about the RateLimiter *)

Bucket(key) == buckets[key]
Exists(key) == key \in DOMAIN buckets

\* C1: every bucket's token count stays within 0 .. capacity, whatever calls are
\* made and whatever `remaining` updateFromHeaders is given.
C1_TokensWithinCapacity ==
    \A key \in DOMAIN buckets :
        /\ 0 <= buckets[key].tokens
        /\ buckets[key].tokens <= buckets[key].maxTokens * ONE_TOKEN

\* C2: every caller that has returned from waitForSlot has itself consumed a token.
C2_ReturnedCallerConsumed ==
    \A c \in Callers : pc[c] = "returned" => got[c]

\* C3: on a fresh scope of capacity C with no time elapsing, the n-th consecutive
\* consume returns true for n <= C and false for n = C + 1.
C3_BurstOfCapacity ==
    (last.op = "consume" /\ burst[last.key] >= 1)
        => (last.ret <=> burst[last.key] <= limits[last.key])

C3_Witness ==
    /\ last.op = "consume"
    /\ burst[last.key] = limits[last.key] + 1
    /\ ~last.ret

\* C4: consume refills to now, then returns true and takes exactly one token iff
\* the refilled count is at least one token; otherwise it returns false and
\* leaves the refilled count as it is.
C4_ConsumeStep(key) ==
    LET b == refill(getBucket(buckets, key, limits[key], now)[key], now)
    IN /\ last'.ret <=> b.tokens >= ONE_TOKEN
       /\ buckets'[key] = [b EXCEPT !.tokens = IF b.tokens >= ONE_TOKEN
                                                THEN b.tokens - ONE_TOKEN
                                                ELSE b.tokens]

C4_Consume ==
    [][\A key \in Scopes :
          (last'.op = "consume" /\ last'.key = key) => C4_ConsumeStep(key)]_vars

C4_Witness ==
    /\ last.op = "consume"
    /\ last.ret
    /\ now > 0
    /\ Bucket(last.key).tokens = 0

C6_MsUntilAvailable ==
    last.op = "msUntilAvailable" =>
        LET b == Bucket(last.key)
        IN /\ last.ret = 0 <=> b.tokens >= ONE_TOKEN
           /\ b.tokens < ONE_TOKEN =>
                 (0 < last.ret /\ last.ret <= CeilDiv(REFILL_MS, b.maxTokens))

\* C7: right after updateFromHeaders(key, C, remaining) the count is
\* min(remaining, C) tokens and the refill clock is now, so that canConsume is
\* true exactly when min(remaining, C) >= 1.
C7_UpdateStep(key, remaining) ==
    /\ buckets'[key].tokens = Min(remaining, limits[key]) * ONE_TOKEN
    /\ buckets'[key].lastRefill = now
    /\ canConsume(buckets', key, limits[key], now').ret <=> Min(remaining, limits[key]) >= 1

C7_UpdateFromHeaders ==
    [][\A key \in Scopes :
          (last'.op = "updateFromHeaders" /\ last'.key = key)
              => C7_UpdateStep(key, last'.arg)]_vars

C7_Witness ==
    /\ last.op = "updateFromHeaders"
    /\ now > 0
    /\ Bucket(last.key).tokens = Bucket(last.key).maxTokens * ONE_TOKEN
    /\ Bucket(last.key).lastRefill = now

\* C8: whatever the bucket's state, a canConsume made a full refill period
\* (60000 ms) or more after the bucket was last touched returns true.
C8_FullPeriodRefills ==
    [][\A key \in Scopes :
          (/\ Exists(key)
           /\ now - Bucket(key).lastRefill >= REFILL_MS
           /\ last'.op \in {"canConsume", "consume"}
           /\ last'.key = key) => last'.ret]_vars

\* C9: a call on one scope leaves the bucket of every other scope as it was.
C9_OtherScopeUntouched(key) ==
    /\ (key \in DOMAIN buckets') <=> Exists(key)
    /\ Exists(key) => buckets'[key] = Bucket(key)

C9_ScopesIndependent ==
    [][\A key \in Scopes : last'.key # key => C9_OtherScopeUntouched(key)]_vars

C9_Witness ==
    /\ Exists("global")
    /\ Bucket("global").tokens < ONE_TOKEN
    /\ last.op = "canConsume"
    /\ last.key = "msg:c1"
    /\ last.ret

----------------------------------------------------------------------------
(* The gateways' ingestion *)

NextMap ==
    \/ \E gw \in {"centrifugo", "binary"}, me \in UserIds : Start(gw, me)
    \/ \E envelope \in Envelopes, channel \in ChannelNames : Publication(envelope, channel)
    \/ \E envelope \in Envelopes, channel \in ChannelNames : StdoutLine(envelope, channel)

SpecMap == Init /\ [][NextMap]_vars

\* chunkText applied to every text and limit within the bounds
InitChunkText ==
    /\ InitLimiter
    /\ limits = [k \in Scopes |-> 1]
    /\ InitIngest
    /\ text \in Texts
    /\ maxLen \in Limits
    /\ chunks = <<>>
    /\ phase = "input"
    /\ InitGw
    /\ InitRefresh
    /\ InitHost
    /\ InitBin
    /\ InitSend
    /\ InitReq

NextChunk == ChunkText

SpecChunk == InitChunkText /\ [][NextChunk]_vars

\* the Centrifugo gateway's calls, awaited results and transport events
NextGw ==
    \/ StartCall
    \/ StartGetMeOk
    \/ StartGetMeFail
    \/ StartChannels(DiscoveredOn(config.servers[srvIdx]))
    \/ StartChannelsFail
    \/ StartTokenOk
    \/ StartTokenFail
    \/ Stop
    \/ \E a \in AddCalls, name \in AddNames : AddChannelCall(a, name)
    \/ \E a \in AddCalls : AddChannelTokenOk(a)
    \/ \E a \in AddCalls : AddChannelTokenFail(a)
    \/ \E name \in AddNames : RemoveChannel(name)
    \/ Connected
    \/ \E sub \in subscriptions : Delivered(sub)

InitOfGw ==
    /\ Init
    /\ limits = [k \in Scopes |-> 1]

SpecGw == InitOfGw /\ [][NextGw]_vars

\* the gateway with the client's token refreshes and one call of addChannel
NextRefresh ==
    \/ StartCall
    \/ StartGetMeOk
    \/ StartGetMeFail
    \/ StartChannels(DiscoveredOn(config.servers[srvIdx]))
    \/ StartChannelsFail
    \/ StartTokenOk
    \/ StartTokenFail
    \/ Stop
    \/ \E name \in AddNames : AddChannelCall("a1", name)
    \/ AddChannelTokenOk("a1")
    \/ AddChannelTokenFail("a1")
    \/ \E name \in AddNames : RemoveChannel(name)
    \/ RefreshCall
    \/ RefreshOk
    \/ RefreshFail

SpecRefresh == InitOfGw /\ [][NextRefresh]_vars

\* the gateway from start() on, running, with its transport's events and the
\* host's callbacks
NextPub ==
    \/ StartCall
    \/ StartGetMeOk
    \/ StartGetMeFail
    \/ StartChannels(DiscoveredOn(config.servers[srvIdx]))
    \/ StartChannelsFail
    \/ StartTokenOk
    \/ StartTokenFail
    \/ \E sub \in subscriptions, envelope \in PubEnvelopes, throws \in BOOLEAN :
          OnPublication(sub, envelope, throws)
    \/ \E status \in {"connected", "disconnected"}, throws \in BOOLEAN :
          OnStatus(status, throws)
    \/ \E a \in AddCalls : AddChannelTokenOk(a)
    \/ \E a \in AddCalls : AutoSubscribeFailed(a)

SpecPub == InitOfGw /\ [][NextPub]_vars

\* the BinaryGateway, with and without a configured server
NextBin ==
    \/ BinStartCall
    \/ BinStartGetMeFail
    \/ \E spawned \in BOOLEAN : BinStartGetMeOk(spawned)
    \/ \E throws \in BOOLEAN : BinProcError(throws)
    \/ \E throws \in BOOLEAN : BinProcClose(throws)
    \/ \E l \in StderrLines, throws \in BOOLEAN : BinStderrLine(l, throws)
    \/ \E l \in StdoutLines, throws \in BOOLEAN : BinStdoutLine(l, throws)
    \/ BinStop
    \/ BinStopTimeout

InitOfBin ==
    /\ InitLimiter
    /\ limits = [k \in Scopes |-> 1]
    /\ InitIngest
    /\ InitChunk
    /\ InitGwState
    /\ config \in {DefaultConfig, [DefaultConfig EXCEPT !.servers = <<>>]}
    /\ InitRefresh
    /\ InitHost
    /\ InitBin
    /\ InitSend
    /\ InitReq

SpecBin == InitOfBin /\ [][NextBin]_vars

\* start() under every configuration, with stop() and the client's events
NextStart ==
    \/ StartCall
    \/ StartGetMeOk
    \/ StartGetMeFail
    \/ \E ok \in BOOLEAN : StartJoin(ok)
    \/ StartChannels(DiscoveredOn(config.servers[srvIdx]))
    \/ StartChannelsFail
    \/ StartTokenOk
    \/ StartTokenFail
    \/ Stop
    \/ Connected

InitStart ==
    /\ InitLimiter
    /\ limits = [k \in Scopes |-> 1]
    /\ InitIngest
    /\ InitChunk
    /\ InitGwState
    /\ config \in Configs
    /\ InitRefresh
    /\ InitHost
    /\ InitBin
    /\ InitSend
    /\ InitReq

SpecStart == InitStart /\ [][NextStart]_vars

----------------------------------------------------------------------------
(* Claims about the event mapper *)

SelfEchoKinds ==
    {"MessageSent", "MessageUpdated", "TypingStarted", "ReactionAdded",
     "ReactionRemoved", "DmMessageReceived", "MentionReceived"}

\* the actor of an envelope: the author of a message or mention, the user typing
\* or reacting
ActorId(envelope) ==
    CASE envelope.event \in {"MessageSent", "MessageUpdated", "MentionReceived"} ->
            envelope.payload.author_id
      [] envelope.event \in {"TypingStarted", "ReactionAdded", "ReactionRemoved"} ->
            envelope.payload.user_id
      [] envelope.event = "DmMessageReceived" -> envelope.payload.message_author_id
      [] OTHER -> Undef

SelfEcho ==
    /\ wireIn.envelope.event \in SelfEchoKinds
    /\ ActorId(wireIn.envelope) = mapperCtx.myUserId

\* C10: an envelope of a self-echo kind whose actor is the local agent maps to
\* null, and nothing is handed to the host for it, in either gateway.
C10_SelfEchoSuppressed == SelfEcho => (mapped = Null /\ emitted = Null)

C10_Witness ==
    /\ SelfEcho
    /\ gateway = "binary"
    /\ wireIn.envelope.event = "TypingStarted"
    /\ mapped = Null

Event == wireIn.envelope.event
Payload == wireIn.envelope.payload
Handled == wireIn # NoInput
Returned == Handled /\ mapped # Null /\ mapped # Raised

\* the normalized type the table of events gives for each wire tag
TableType(event) ==
    CASE event = "MessageSent" -> "message"
      [] event = "MessageUpdated" -> "message.edit"
      [] event = "MessageDeleted" -> "message.delete"
      [] event = "TypingStarted" -> "typing"
      [] event = "ReactionAdded" -> "reaction.add"
      [] event = "ReactionRemoved" -> "reaction.remove"
      [] event = "ThreadCreated" -> "thread.create"
      [] event = "ThreadUpdated" -> "thread.update"
      [] event = "MemberJoined" -> "presence.join"
      [] event = "MemberLeft" -> "presence.leave"
      [] event = "DmCreated" -> "dm.create"
      [] event = "DmMessageReceived" -> "message"
      [] event = "MentionReceived" -> "mention"

\* C11: an envelope with one of the 13 tags whose actor is not the local agent
\* maps to a non-null event of the type the table fixes for the tag (with isDm
\* for DmMessageReceived), stamped with the context's accountId; the six kinds
\* that are not self-echo-filtered map to non-null whatever the actor.
C11_ClosedDispatch ==
    (Handled /\ Event \in EventNames /\ ~SelfEcho) =>
        /\ Returned
        /\ mapped.normalized.type = TableType(Event)
        /\ mapped.normalized.accountId = mapperCtx.accountId
        /\ Event = "DmMessageReceived" => mapped.normalized.isDm = TRUE

C11_Witness ==
    /\ Event = "MemberLeft"
    /\ Payload.user_id = mapperCtx.myUserId
    /\ Returned
    /\ mapped.normalized.type = "presence.leave"

\* C12: an envelope whose tag is none of the 13 maps to null, and mapEvent does
\* not raise, whatever the tag and the payload.
C12_UnknownTagNull ==
    (Handled /\ Event \notin EventNames) => mapped = Null

\* C13: ThreadCreated maps to a non-null result whose autoSubscribe is
\* thread.<payload.id>, DmCreated to one whose autoSubscribe is
\* channel.<payload.channel_id>, whatever the actor; no other kind of event
\* yields an auto-subscribe target.
C13_AutoSubscribe ==
    /\ (Handled /\ Event = "ThreadCreated") =>
            (Returned /\ mapped.autoSubscribe = "thread." \o Payload.id)
    /\ (Handled /\ Event = "DmCreated") =>
            (Returned /\ mapped.autoSubscribe = "channel." \o Payload.channel_id)
    /\ (Returned /\ Event \notin {"ThreadCreated", "DmCreated"}) =>
            mapped.autoSubscribe = Undef

C13_Witness ==
    /\ Event = "ThreadCreated"
    /\ Returned
    /\ mapped.autoSubscribe = "thread.42"

\* the kinds whose handler leaves channelId blank
BlankKinds ==
    {"ReactionAdded", "ReactionRemoved", "ThreadUpdated", "MemberJoined", "MemberLeft"}

\* the channel id a handler put in its result, before any back-fill
HandlerChannelId ==
    IF Event \in BlankKinds THEN "" ELSE Payload.channel_id

\* the originating channel name is private-channel.<id> or private-thread.<id>
IsPrivateChannelName(channel) ==
    /\ channel.prefix = "private-"
    /\ channel.scope \in {"channel", "thread"}
    /\ channel.id # ""
    /\ LeadingDigits(channel.id) = channel.id

\* C14: a channelId left blank by the handler becomes <id> when the originating
\* channel name is private-channel.<id> or private-thread.<id> and stays blank
\* for every other originating channel name; a non-blank channelId taken from
\* the payload is never overwritten.
C14_BackFill ==
    (Returned /\ Event \in EventNames) =>
        mapped.normalized.channelId =
            IF HandlerChannelId # "" THEN HandlerChannelId
            ELSE IF IsPrivateChannelName(wireIn.channel) THEN wireIn.channel.id
            ELSE ""

----------------------------------------------------------------------------
(* Claims about chunkText *)

Chunked == phase = "done"

\* C15: a text whose length is at or under the limit, the empty text included,
\* comes back as the one chunk that is the text itself.
C15_ShortTextOneChunk ==
    (Chunked /\ Len(text) <= maxLen) => chunks = <<text>>

C15_Witness ==
    /\ Chunked
    /\ text = <<>>
    /\ chunks = <<text>>

\* C16: for every text and every limit of at least 1, no chunk is longer than
\* the limit.
C16_NoChunkOverLimit ==
    (Chunked /\ maxLen >= 1) => \A i \in 1..Len(chunks) : Len(chunks[i]) <= maxLen

C16_Witness ==
    /\ Chunked
    /\ Len(chunks) >= 3
    /\ \E i \in 1..Len(chunks) : Len(chunks[i]) = maxLen
    /\ \E i \in 1..Len(chunks) : Len(chunks[i]) < maxLen

WhitespaceOnly(s) == \A i \in 1..Len(s) : s[i] \in Whitespace

\* t is the chunks cs in their order, with a run of whitespace (possibly empty)
\* after each of them
RECURSIVE Rejoins(_, _)
Rejoins(t, cs) ==
    IF cs = <<>> THEN t = <<>>
    ELSE LET c == Head(cs)
         IN /\ Len(c) <= Len(t)
            /\ SubSeq(t, 1, Len(c)) = c
            /\ \E k \in Len(c)..Len(t) :
                  /\ WhitespaceOnly(SubSeq(t, Len(c) + 1, k))
                  /\ Rejoins(SubSeq(t, k + 1, Len(t)), Tail(cs))

\* C17: the chunks are, in order, consecutive non-overlapping substrings of the
\* text, and the text is the chunks with whitespace-only separators put back
\* between them and possibly after the last: nothing but whitespace is lost.
C17_OnlyWhitespaceLost ==
    Chunked => (chunks # <<>> /\ Rejoins(text, chunks))

C17_Witness ==
    /\ Chunked
    /\ Len(chunks) = 2
    /\ Len(chunks[1]) + Len(chunks[2]) + 2 = Len(text)
    /\ \E i \in 1..Len(text) : text[i] = "."

\* C18: when the fence markers of the text are balanced, no chunk holds an odd
\* number of fence markers.
C18_NoOddFenceChunk ==
    (Chunked /\ fenceCount(text) % 2 = 0) =>
        \A i \in 1..Len(chunks) : fenceCount(chunks[i]) % 2 = 0

----------------------------------------------------------------------------
(* Claims about the gateway's lifecycle *)

StartSettled == startPc \in {"done", "failed"}

\* C19: when stop() was called while start() was suspended at an await, then
\* once both have settled the gateway holds no transport client and no
\* subscription, and the host receives no event and no 'connected' status.
C19_StopDuringStart ==
    (stopDuringStart /\ stopped /\ StartSettled) =>
        /\ client = "null"
        /\ subscriptions = {}
        /\ sinceStop = {}

\* C20: after stop() has completed, addChannel(name) and removeChannel(name)
\* issue no authorization request, open no subscription and leave the interest
\* set, the subscription map and the stored token as they were.
C20_NoOpAfterStop ==
    [][(stopped /\ gwOp' \in {"addChannel", "removeChannel"}) =>
          UNCHANGED <<authLog, subscriptions, requestedChannels, tokenResponse>>]_vars

\* C21: stop() completes on a gateway that was never started and on one that
\* was stopped before, and when it has completed the gateway has no
\* subscription, an empty interest set and no transport client.
C21_StopClears ==
    [][/\ gwOp' = "stop" =>
              /\ subscriptions' = {}
              /\ requestedChannels' = {}
              /\ client' = "null"
              /\ stopped'
       /\ binOp' = "stop" =>
              /\ proc' = "null"
              /\ stdoutRl' = "null"
              /\ stderrRl' = "null"
              /\ binStopPc' \in {"done", "close"}]_vars

C21_Witness ==
    /\ gwOp = "stop"
    /\ startPc = "idle"
    /\ tokenResponse # Null
    /\ requestedChannels = {}

\* the call of addChannel that took the step, with its argument
AddCalled(a) == gwOp' = "addChannel" /\ addPc[a] = "idle" /\ addPc'[a] # "idle"
AddResumed(a) == gwOp' = "addChannel.subscribe" /\ addPc[a] = "token" /\ addPc'[a] = "done"

\* C22: addChannel(name) for a name that is already tracked returns at once: it
\* makes no authorization request, opens no subscription and changes no state,
\* so calls for one name made in a row or concurrently make one request at most.
C22_TrackedIsNoOp ==
    [][\A a \in AddCalls :
          (AddCalled(a) /\ addArg'[a] \in requestedChannels) =>
              /\ addPc'[a] = "done"
              /\ UNCHANGED <<authLog, subscriptions, requestedChannels, tokenResponse,
                             client>>]_vars

C22_Witness ==
    /\ addPc["a1"] = "token"
    /\ addPc["a2"] = "done"
    /\ addArg["a1"] = addArg["a2"]
    /\ Len(authLog) = 1
    /\ gwOp = "addChannel"

\* C23: addChannel(name) for an untracked name adds it to the interest set and
\* requests authorization for the new full interest set; when the token has
\* arrived it opens the subscription private-<name> if and only if there is a
\* transport client, and with no client only the interest set and the stored
\* token have changed.
C23_UntrackedIsAdded ==
    [][\A a \in AddCalls :
          /\ (AddCalled(a) /\ addArg'[a] \notin requestedChannels) =>
                /\ requestedChannels' = requestedChannels \cup {addArg'[a]}
                /\ authLog' = Append(authLog, requestedChannels')
                /\ UNCHANGED <<subscriptions, tokenResponse, client>>
          /\ AddResumed(a) =>
                /\ subscriptions' = IF client # "null"
                                    THEN subscriptions \cup {SubName(addArg[a])}
                                    ELSE subscriptions
                /\ tokenResponse' # Null
                /\ UNCHANGED <<requestedChannels, authLog, client>>]_vars

C23_Witness ==
    /\ gwOp = "addChannel.subscribe"
    /\ client = "open"
    /\ startPc = "done"
    /\ SubName("thread.42") \in subscriptions
    /\ "thread.42" \in requestedChannels

\* the names the configuration lists: its servers and its explicit channels
ConfiguredServers == {"server." \o config.servers[k] : k \in DOMAIN config.servers}
ExplicitChannels == {"channel." \o config.channels[k] : k \in DOMAIN config.channels}
Discoverable == UNION {DiscoveredOn(config.servers[k]) : k \in DOMAIN config.servers}

\* C24: when start() has completed the interest set contains user.<myId>; with
\* listenMentionsOnly it is exactly that name, otherwise it also holds
\* server.<s> for every configured server, channel.<c> for every explicit
\* channel and nothing but discovered channels besides; and the authorization
\* requested at connect was for exactly this set.
C24_InitialInterest ==
    (gwOp = "start.connect") =>
        /\ ("user." \o Me) \in requestedChannels
        /\ config.listenMentionsOnly => requestedChannels = {"user." \o Me}
        /\ ~config.listenMentionsOnly =>
              /\ ConfiguredServers \cup ExplicitChannels \subseteq requestedChannels
              /\ requestedChannels \subseteq
                    {"user." \o Me} \cup ConfiguredServers \cup ExplicitChannels
                       \cup Discoverable
        /\ authLog[Len(authLog)] = requestedChannels

\* C25: a rejected joinServer or getServerChannels does not end start(): the
\* server's own name is in the interest set when its discovery is awaited,
\* the failure removes nothing, the next server is processed, and after the
\* last one the explicit channels are added and the transport is requested.
C25_DiscoveryFailureNotFatal ==
    [][/\ (startPc' = "channels" /\ (startPc # "channels" \/ srvIdx' # srvIdx)) =>
              ("server." \o config.servers[srvIdx']) \in requestedChannels'
       /\ gwOp' = "start.join.failed" => startPc' = "channels"
       /\ gwOp' = "start.channels.failed" =>
              /\ requestedChannels \subseteq requestedChannels'
              /\ IF srvIdx < Len(config.servers)
                 THEN /\ srvIdx' = srvIdx + 1
                      /\ startPc' \in {"join", "channels"}
                 ELSE /\ startPc' = "token"
                      /\ ExplicitChannels \subseteq requestedChannels'
                      /\ authLog' = Append(authLog, requestedChannels')]_vars

C25_Witness ==
    /\ config.servers = <<ServerId, OtherServerId>>
    /\ startPc = "done"
    /\ client = "open"
    /\ ~stopped
    /\ requestedChannels =
          {"user." \o Me, "server.s1", "server.s2", "channel.8", "channel.9"}
    /\ subscriptions = Authorized(requestedChannels)

\* C26: when getMe has rejected, start() has rejected without requesting an
\* event token, creating a client or opening a subscription, and the host was
\* never told 'connected'.
C26_GetMeFailure ==
    /\ (startPc = "failed" /\ myUserId = "") =>
          /\ authLog = <<>>
          /\ client = "null"
          /\ subscriptions = {}
          /\ "connected" \notin sinceStop
    /\ (binStartPc = "failed" /\ binUserId = "") =>
          /\ proc = "null"
          /\ child = "none"
          /\ hostLog = <<>>

C26_Witness ==
    /\ gwOp = "start.getMe.failed"
    /\ startPc = "failed"
    /\ myUserId = ""

\* C27: every token refresh requests a token for the interest set as it is
\* when the refresh is made, and a refresh whose request fails rejects to the
\* client and changes neither the interest set nor the subscriptions, the
\* client or the stored token, also when stop() has run in between.
C27_RefreshScope ==
    [][/\ gwOp' = "refresh" =>
              /\ authLog' = Append(authLog, requestedChannels)
              /\ UNCHANGED <<requestedChannels, subscriptions, client>>
       /\ gwOp' = "refresh.failed" =>
              /\ refPc' = "rejected"
              /\ UNCHANGED <<requestedChannels, subscriptions, client, tokenResponse,
                             authLog>>]_vars

C27_Witness ==
    /\ gwOp = "refresh"
    /\ refList = {"user." \o Me, "server." \o ServerId, "thread.42"}
    /\ channelList = {"user." \o Me, "server." \o ServerId, "channel.7"}
    /\ authLog[Len(authLog)] = refList

\* a handler of a transport event took the step
HandlerStep ==
    \/ gwOp' \in {"publication", "connected", "disconnected"}
    \/ binOp' \in {"stdout", "stderr", "error", "close"}

\* C28: an exception thrown by the host's event or status callback is caught
\* in the gateway's handler: the handler does not throw, no subscription,
\* client or interest changes, and a later publication that maps to an event
\* is still handed to the host.
C28_CallbackContained ==
    [][HandlerStep =>
          /\ outcome' \in {"returned", "caught"}
          /\ hostThrew' =>
                /\ outcome' = "caught"
                /\ UNCHANGED <<subscriptions, client, requestedChannels, tokenResponse>>
                /\ UNCHANGED <<stdoutRl, stderrRl>>
          /\ (gwOp' = "publication" /\ mapped' # Null /\ mapped' # Raised) =>
                emitted' = mapped'.normalized]_vars

C28_Witness ==
    /\ gwOp = "publication"
    /\ thrown
    /\ ~hostThrew
    /\ emitted # Null
    /\ client = "open"

\* C29: every ThreadCreated or DmCreated publication the gateway processes
\* makes it call addChannel, so that thread.<id> / channel.<id> is in the
\* interest set when the handler has run, whatever the host's callback did.
C29_AutoSubscribeActed ==
    [][(gwOp' = "publication" /\ wireIn'.envelope.event \in {"ThreadCreated", "DmCreated"})
          => mapped'.autoSubscribe \in requestedChannels']_vars

\* a stdout line that is not JSON or does not carry one of the 13 events
Malformed(l) == l.kind # "object" \/ l.event \notin EventNames

\* C30: a stdout line that is not parsable JSON or carries no known envelope
\* calls no callback of the host and throws nothing, and a well-formed line
\* after it is still mapped and handed to the host, in the order of the lines.
C30_MalformedDiscarded ==
    [][binOp' = "stdout" =>
          /\ outcome' # "threw"
          /\ Malformed(line') => hostLog' = hostLog
          /\ ~Malformed(line') =>
                LET result == mapEvent([event |-> line'.event, payload |-> line'.payload],
                                       BinCtx, line'.channel)
                IN IF result = Null \/ result = Raised
                   THEN hostLog' = hostLog
                   ELSE hostLog' = Append(hostLog, EventEntry(result.normalized))]_vars

----------------------------------------------------------------------------
(* Claims about the OutboundService *)

\* calls of sendText, to any targets, with stopAll and the keep-alives
NextSend ==
    \/ \E s \in Sends, target \in Targets, n \in 1..MaxChunks : SendText(s, target, n)
    \/ \E s \in Sends : StartTypingArmed(s)
    \/ \E s \in Sends : SendTextResumed(s)
    \/ \E s \in Sends : ChunkSent(s)
    \/ \E s \in Sends : ChunkFailed(s)
    \/ \E s \in Sends : DelayOver(s)
    \/ \E t \in Sends : KeepAlive(t)
    \/ StopAll

\* the service with and without typing indicators
InitOfSend ==
    /\ InitLimiter
    /\ limits = [k \in Scopes |-> 1]
    /\ InitIngest
    /\ InitChunk
    /\ InitGw
    /\ InitRefresh
    /\ InitHost
    /\ InitBin
    /\ InitSendState
    /\ sendTypingIndicators \in BOOLEAN
    /\ InitReq

SpecSend == InitOfSend /\ [][NextSend]_vars

\* the call of sendText has returned or thrown
Settled(s) == sendPc[s] \in {"returned", "threw"}

\* C31: once a call of sendText has returned or thrown, the keep-alive timer
\* it armed is no longer active, and while no sendText is in flight no
\* keep-alive timer is armed at all, for every interleaving of sendText calls
\* (to the same target too) and stopAll.
C31_NoIndicatorOutlivesSend ==
    /\ \A s \in Sends : Settled(s) => s \notin activeTimers
    /\ (\A s \in Sends : sendPc[s] = "idle" \/ Settled(s)) => activeTimers = {}

\* C32: within one call of sendText the REST calls are made one per chunk and
\* in chunk order, the call for the next chunk is made only when the call for
\* the one before has resolved, and the list a call returns has one entry per
\* chunk in the same order.
C32_ChunksInOrder ==
    \A s \in Sends :
        /\ Len(calls[s]) <= sendChunks[s]
        /\ calls[s] = [i \in 1..Len(calls[s]) |-> ChunkCall(sendTarget[s], i)]
        /\ messages[s] = [i \in 1..Len(messages[s]) |-> i]
        /\ Len(messages[s]) <= Len(calls[s])
        /\ Len(calls[s]) <= Len(messages[s]) + 1
        /\ sendPc[s] \in {"chunk", "threw"} <=> Len(calls[s]) = Len(messages[s]) + 1
        /\ sendPc[s] = "returned" => Len(messages[s]) = sendChunks[s]

\* both calls have returned the messages of all their chunks, one of them
\* sent to the thread
C32_Witness ==
    /\ \A s \in Sends : sendPc[s] = "returned" /\ sendChunks[s] = MaxChunks
    /\ sendTarget["s1"] # sendTarget["s2"]
    /\ \A s \in Sends : Len(messages[s]) = MaxChunks

\* C35: when the REST call for chunk k of a sendText fails, the call throws,
\* no call for a chunk after k was or is made, and the keep-alive timer the
\* call armed is cleared when the error reaches the caller.
C35_FailedChunkAborts ==
    \A s \in Sends :
        sendPc[s] = "threw" =>
            /\ Len(calls[s]) = Len(messages[s]) + 1
            /\ s \notin activeTimers

----------------------------------------------------------------------------
(* Claims about ApiClient.request *)

\* two calls of request on one client, the server's answers and the clock
NextReq ==
    \/ \E c \in Callers, key \in RateLimitKeys : Request(c, key)
    \/ \E c \in Callers : GlobalSlotReturned(c)
    \/ \E c \in Callers : ScopedSlotReturned(c)
    \/ \E c \in Callers, status \in Statuses, remaining \in RemainingHeaders,
          retryAfter \in RetryAfters, body \in Bodies :
            Response(c, status, remaining, retryAfter, body)
    \/ \E c \in Callers : BackoffOver(c)
    \/ \E c \in Callers : SlotTimerFired(c)
    \/ \E c \in Callers : SlotTimerDue(c)
    \/ \E c \in Callers : BackoffDue(c)

SpecReq == Init /\ [][NextReq]_vars

\* C33: every fetch request() makes comes after its wait for a slot of the
\* 'global' bucket has returned with a slot acquired and, when the request
\* has a rate-limit key (a message send), after the wait for a slot of that
\* bucket has too: one acquired slot per fetch in each applicable bucket.
C33_FetchHoldsSlots ==
    \A c \in Callers : \A i \in 1..Len(fetchLog[c]) :
        /\ fetchLog[c][i].global = "acquired"
        /\ fetchLog[c][i].scoped = IF reqKey[c] = "" THEN "none" ELSE "acquired"

\* the latest response to the call was a failure other than 429
Failure(c) ==
    /\ reqRes[c] # Null
    /\ reqRes[c].status # 429
    /\ reqRes[c].status < 200 \/ reqRes[c].status > 299

\* C34: a logical request is re-issued at most once because of 429 responses,
\* so it makes at most two fetches; a response with another non-2xx status is
\* not retried: the call throws an ApiError with the status, the body and the
\* path.
C34_RetriedOnceOn429 ==
    \A c \in Callers :
        /\ Len(fetchLog[c]) <= 2
        /\ reqPc[c] = "backoff" => reqRes[c].status = 429
        /\ Failure(c) =>
              /\ reqPc[c] = "threw"
              /\ reqResult[c] = ApiError(reqRes[c].status, reqRes[c].body, PathOf(reqKey[c]))

----------------------------------------------------------------------------
(* Claims about the BinaryGateway's status *)

\* this step calls the host's status callback with status, once
Reports(status) ==
    /\ Len(hostLog') = Len(hostLog) + 1
    /\ hostLog'[Len(hostLog')].callback = "onStatus"
    /\ hostLog'[Len(hostLog')].arg = status

\* this step calls the host's status callback
ReportsStatus == Reports("connected") \/ Reports("disconnected")

\* C36: the BinaryGateway reports 'connected' exactly when a stderr line
\* contains 'websocket connected'; it reports 'disconnected' when a stderr line
\* contains 'websocket disconnected', when the child fails to spawn and when
\* the child closes; a stdout line reports no status.
C36_StatusInference ==
    [][/\ Reports("connected") <=>
             (binOp' = "stderr" /\ includes(errLine', <<"websocket", "connected">>))
       /\ (binOp' = "stderr" /\ includes(errLine', <<"websocket", "disconnected">>))
             => Reports("disconnected")
       /\ binOp' \in {"error", "close"} => Reports("disconnected")
       /\ binOp' = "stdout" => ~ReportsStatus]_vars

\* C36, amended: the BinaryGateway reports 'connected' exactly when a stderr
\* line contains 'websocket connected'; it reports 'disconnected' when a stderr
\* line contains 'websocket disconnected' and not 'websocket connected', when
\* the child fails to spawn and when the child closes; a stdout line reports
\* no status.
C36_OneStatusPerLine ==
    [][/\ Reports("connected") <=>
             (binOp' = "stderr" /\ includes(errLine', <<"websocket", "connected">>))
       /\ (/\ binOp' = "stderr"
           /\ includes(errLine', <<"websocket", "disconnected">>)
           /\ ~includes(errLine', <<"websocket", "connected">>))
             => Reports("disconnected")
       /\ binOp' \in {"error", "close"} => Reports("disconnected")
       /\ binOp' = "stdout" => ~ReportsStatus]_vars

\* a stderr line with both phrases was read after one that reported
\* 'disconnected', and 'connected' was reported for it
C36_Witness ==
    /\ binOp = "stderr"
    /\ includes(errLine, <<"websocket", "connected">>)
    /\ includes(errLine, <<"websocket", "disconnected">>)
    /\ Len(hostLog) = 2
    /\ hostLog[1] = StatusEntry("disconnected")
    /\ hostLog[2] = StatusEntry("connected")

----------------------------------------------------------------------------
(* Claims about addChannel and removeChannel on a running gateway *)

\* addChannel(name) and removeChannel(name) called on a running gateway
RunAddChannel(a, name) == startPc = "done" /\ AddChannelCall(a, name)
RunRemoveChannel(name) == startPc = "done" /\ RemoveChannel(name)

\* the host's calls of addChannel and removeChannel on a running gateway: one
\* that start() has brought up undisturbed
NextRun ==
    \/ StartCall
    \/ StartGetMeOk
    \/ StartChannels(DiscoveredOn(config.servers[srvIdx]))
    \/ StartTokenOk
    \/ \E a \in AddCalls, name \in AddNames : RunAddChannel(a, name)
    \/ \E a \in AddCalls : AddChannelTokenOk(a)
    \/ \E a \in AddCalls : AddChannelTokenFail(a)
    \/ \E name \in AddNames : RunRemoveChannel(name)

SpecRun == InitOfGw /\ [][NextRun]_vars

\* start() has completed and no call of addChannel is suspended
RunningAndSettled ==
    /\ startPc = "done"
    /\ \A a \in AddCalls : addPc[a] # "token"

\* C37: on a running gateway, once every addChannel and removeChannel call has
\* settled, a subscription private-<c> is open only if c is in the interest
\* set, however the calls were interleaved.
C37_SubscriptionsWithinInterest ==
    RunningAndSettled =>
        \A name \in AddNames \cup channelList :
            SubName(name) \in subscriptions => name \in requestedChannels

\* the authorization request of call a has failed at this step
AddFailed(a) == gwOp' = "addChannel.failed" /\ addPc[a] = "token" /\ addPc'[a] = "failed"

\* call b is made at this step for a name whose authorization failed in an
\* earlier call, and that no call has added since
RetryOfFailed(b) ==
    /\ AddCalled(b)
    /\ \E a \in AddCalls \ {b} : addPc[a] = "failed" /\ addArg[a] = addArg'[b]
    /\ \A a \in AddCalls \ {b} : addArg[a] = addArg'[b] => addPc[a] = "failed"

\* C38: when the authorization request of addChannel(name) fails, the call
\* rejects and name is not in the interest set afterwards (unless another call
\* that is still awaiting its token has added it), and a later
\* addChannel(name) requests authorization again.
C38_FailedAddRollsBack ==
    [][/\ \A a \in AddCalls :
             AddFailed(a) =>
                \/ addArg[a] \notin requestedChannels'
                \/ \E b \in AddCalls \ {a} : addArg[b] = addArg[a] /\ addPc[b] = "token"
       /\ \A b \in AddCalls :
             RetryOfFailed(b) =>
                /\ addPc'[b] = "token"
                /\ Len(authLog') = Len(authLog) + 1]_vars

----------------------------------------------------------------------------
(* Claims about the loop of chunkText *)

\* the iterations of chunkText's loop on a text, at most fuel of them: for
\* each the breakpoint chosen and the length of the remaining text before and
\* after it
RECURSIVE Iterations(_, _, _)
Iterations(remaining, limit, fuel) ==
    IF Len(remaining) > limit /\ fuel > 0
    THEN LET breakpoint == findBreakpoint(remaining, limit)
             rest == trimStart(sliceFrom(remaining, breakpoint))
         IN <<[breakpoint |-> breakpoint, before |-> Len(remaining), after |-> Len(rest)]>>
               \o Iterations(rest, limit, fuel - 1)
    ELSE <<>>

\* every iteration of the loop on the text chooses a breakpoint of at least 1
\* and leaves a shorter remaining text
LoopProgresses ==
    LET its == Iterations(text, maxLen, Len(text) + 1)
    IN \A i \in 1..Len(its) : its[i].breakpoint >= 1 /\ its[i].after < its[i].before

\* C39: for every text and every limit of at least 1 chunkText terminates:
\* every iteration of its loop chooses a breakpoint of at least 1 and shortens
\* the remaining text, and the number of chunks is at most the length of the
\* text.
C39_LoopTerminates ==
    (Chunked /\ maxLen >= 1) => (LoopProgresses /\ Len(chunks) <= Len(text))

\* C39, amended: as C39, the number of chunks being at most the length of the
\* text or, for the empty text, one.
C39_LoopTerminatesNonEmpty ==
    (Chunked /\ maxLen >= 1) =>
        /\ LoopProgresses
        /\ Len(chunks) <= IF text = <<>> THEN 1 ELSE Len(text)

\* a text cut into as many chunks as it has characters, in three iterations
\* or more
C39_Witness ==
    /\ Chunked
    /\ Len(Iterations(text, maxLen, Len(text) + 1)) >= 3
    /\ Len(chunks) = Len(text)

\* C40: for every text longer than the limit, every chunk chunkText returns is
\* non-empty, so that sendText hands no empty message to the REST call.
C40_NoEmptyChunk ==
    (Chunked /\ Len(text) > maxLen) => \A i \in 1..Len(chunks) : chunks[i] # <<>>

====
